---------------------------- MODULE Spec2Model ----------------------------
(***************************************************************************)
(* Model of numtide/nix-auth: the provider registry, the detection engine  *)
(* with its per-provider detectors, and the GitLab OAuth device-flow       *)
(* polling loop.                                                           *)
(***************************************************************************)
EXTENDS Integers, Sequences, FiniteSets, TLC

VARIABLES
    registry,   \* names registered in the process-wide registry
    dpc,        \* position of Detect: "idle", "loop", "done"
    dHost,      \* Detect's host argument
    dClientID,  \* Detect's clientID argument
    dOrder,     \* the ListForDetection() result Detect ranges over
    dIdx,       \* index of the next name of dOrder
    dCalls,     \* detector invocations made by the running Detect, in order
    dResult,    \* (provider, error) returned by Detect
    apc,        \* position of GitLabProvider.Authenticate: "idle", "requestingCode",
                \* "select" (blocked in pollForToken's select), "inflight", "done"
    g,          \* the GitLabProvider Authenticate runs on
    aClientID,  \* Authenticate's resolved client ID
    interval,   \* pollForToken's local variable interval, in seconds
    now,        \* seconds since pollForToken created its ticker
    tPeriod,    \* the ticker's period
    tNext,      \* the time of the ticker's next tick
    tPending,   \* a tick is waiting in ticker.C
    ctxDone,    \* "" or the reason ctx.Done() is closed
    pReqs,      \* the times at which token requests were sent
    pReplies,   \* the token endpoint's replies, in order
    netCalls,   \* HTTP requests Authenticate has sent
    aResult,    \* (token, error) returned by Authenticate
    prov,       \* the provider the operations below are called on
    server,     \* what the server's current-user endpoint answers, per token
    seen,       \* per token, the statuses ValidateToken has returned for it
    last,       \* the last operation called on prov: its arguments, what it
                \* did (prompts, browser, requests) and what it returned
    regs,       \* the registry map: the registration held under each name
    regLog,     \* the RegisterProvider calls made on that map, in order
    rLast,      \* the last Get, GetWithConfig or detector call and its result
    store,      \* the token store as the commands see it: the token of each host
    cmd,        \* the set-token or login command running or last run: its
                \* arguments, position, what it did and what it returned
    mainFile,   \* nix.conf: whether it exists, and its lines
    tokenFile,  \* access-tokens.conf, next to nix.conf
    backups,    \* the contents of the nix.conf.backup-<time> files
    sLast,      \* the last SetToken or RemoveToken: its arguments, the files
                \* it found, what it did to the files, in order, and its error
    lp,         \* login with a PAT provider: the clock of its context, the
                \* prompt Authenticate waits at, what was entered and returned
    tx,         \* the text of the token file: the SetToken that wrote it, the
                \* line written, and what GetToken made of it
    cFiles,     \* the files two concurrent SetToken calls work on: nix.conf,
                \* access-tokens.conf and the backups
    procs       \* the two calls: position, arguments, what each has read so
                \* far and its error

detectVars == <<registry, dpc, dHost, dClientID, dOrder, dIdx, dCalls, dResult>>

authVars == <<apc, g, aClientID, interval, now, tPeriod, tNext, tPending, ctxDone,
              pReqs, pReplies, netCalls, aResult>>

opVars == <<prov, server, seen, last>>

regVars == <<regs, regLog, rLast>>

cmdVars == <<store, cmd>>

storeVars == <<mainFile, tokenFile, backups, sLast>>

patVars == <<lp>>

textVars == <<tx>>

concVars == <<cFiles, procs>>

\* what the actions of one part leave alone
exceptDetectVars == <<authVars, opVars, regVars, cmdVars, storeVars, patVars, textVars, concVars>>
exceptAuthVars == <<detectVars, opVars, regVars, cmdVars, storeVars, patVars, textVars, concVars>>
exceptOpVars == <<detectVars, authVars, regVars, cmdVars, storeVars, patVars, textVars, concVars>>
exceptRegVars == <<detectVars, authVars, opVars, cmdVars, storeVars, patVars, textVars, concVars>>
exceptCmdVars == <<detectVars, authVars, opVars, regVars, storeVars, patVars, textVars, concVars>>
exceptStoreVars == <<detectVars, authVars, opVars, regVars, cmdVars, patVars, textVars, concVars>>
exceptPatVars == <<detectVars, authVars, opVars, regVars, cmdVars, storeVars, textVars, concVars>>
exceptTextVars == <<detectVars, authVars, opVars, regVars, cmdVars, storeVars, patVars, concVars>>
exceptConcVars == <<detectVars, authVars, opVars, regVars, cmdVars, storeVars, patVars, textVars>>

vars == <<registry, dpc, dHost, dClientID, dOrder, dIdx, dCalls, dResult,
          apc, g, aClientID, interval, now, tPeriod, tNext, tPending, ctxDone,
          pReqs, pReplies, netCalls, aResult, prov, server, seen, last,
          regs, regLog, rLast, store, cmd, mainFile, tokenFile, backups, sLast, lp, tx,
          cFiles, procs>>

-----------------------------------------------------------------------------
(* Strings *)

Hosts == {"github.com", "GitHub.com", "gitlab.com", "gitea.com", "gitea.io",
          "codeberg.org", "Codeberg.ORG", "git.example.com", ""}

ClientIDs == {"", "my-client-id"}

Versions == {"", "1.21.0", "1.19.3+Forgejo"}

\* strings.ToLower on the strings of the model
ToLower(s) ==
    CASE s = "GitHub.com" -> "github.com"
      [] s = "Codeberg.ORG" -> "codeberg.org"
      [] s = "1.19.3+Forgejo" -> "1.19.3+forgejo"
      [] OTHER -> s

\* strings.Contains(s, "forgejo") on the strings of the model
ContainsForgejo(s) == s \in {"1.19.3+forgejo", "forgejo"}

-----------------------------------------------------------------------------
(* Providers *)

NoErr == "nil"

NilProvider == [kind |-> "nil", providerName |-> "", host |-> "", clientID |-> "", defaultHost |-> ""]

GitHubProvider(host, clientID) ==
    [kind |-> "github", providerName |-> "github", host |-> host, clientID |-> clientID, defaultHost |-> "github.com"]

GitLabProvider(host, clientID) ==
    [kind |-> "gitlab", providerName |-> "gitlab", host |-> host, clientID |-> clientID, defaultHost |-> "gitlab.com"]

PersonalAccessTokenProvider(providerName, defaultHost, host) ==
    [kind |-> "pat", providerName |-> providerName, host |-> host, clientID |-> "", defaultHost |-> defaultHost]

NewUnknownProvider(host) ==
    [kind |-> "unknown", providerName |-> "unknown", host |-> host, clientID |-> "", defaultHost |-> ""]

mockProvider(name, host, clientID) ==
    [kind |-> "mock", providerName |-> name, host |-> host, clientID |-> clientID, defaultHost |-> ""]

Name(p) == p.providerName

Host(p) ==
    CASE p.kind \in {"github", "gitlab", "pat"} -> IF p.host # "" THEN p.host ELSE p.defaultHost
      [] OTHER -> p.host

\* GitHubProvider.getAPIURL, and GitLabProvider.getBaseURL with the /api/v4
\* its requests append
getAPIURL(p) ==
    CASE p.kind = "github" ->
            IF p.host # "" /\ p.host # "github.com" THEN "https://" \o p.host \o "/api/v3"
            ELSE "https://api.github.com"
      [] p.kind = "gitlab" ->
            IF p.host # "" /\ p.host # "gitlab.com" THEN "https://" \o p.host \o "/api/v4"
            ELSE "https://gitlab.com/api/v4"

-----------------------------------------------------------------------------
(* HTTP replies to a detection probe *)

NoBody == [decodable |-> FALSE, hasCurrentUserURL |-> FALSE, hasVersion |-> FALSE, version |-> ""]

Bodies ==
    {NoBody}
    \cup {[decodable |-> TRUE, hasCurrentUserURL |-> c, hasVersion |-> FALSE, version |-> ""] : c \in BOOLEAN}
    \cup {[decodable |-> TRUE, hasCurrentUserURL |-> FALSE, hasVersion |-> TRUE, version |-> v] : v \in Versions}

ErrResp == [err |-> TRUE, status |-> 0, body |-> NoBody]

NoResp == [err |-> FALSE, status |-> 0, body |-> NoBody]

Responses ==
    {ErrResp, [err |-> FALSE, status |-> 404, body |-> NoBody]}
    \cup {[err |-> FALSE, status |-> 200, body |-> b] : b \in Bodies}

\* what client.Do can answer for https://<host>/...: a URL without a host
\* is never sent
Network(host) == IF host = "" THEN {ErrResp} ELSE Responses

-----------------------------------------------------------------------------
(* Detectors: each returns (provider, error) and whether it issued its GET *)

Ret(p, e, http) == [provider |-> p, err |-> e, http |-> http]

\* mutants of NewGitHubProviderForHost: any 200 reply is taken for GitHub; the
\* provider is bound to the lower-cased host
NewGitHubProviderForHost_AnyOK(host, resp) ==
    IF ToLower(host) = "github.com" THEN Ret(GitHubProvider(host, ""), NoErr, FALSE)
    ELSE IF resp.err THEN Ret(NilProvider, "transport error", TRUE)
    ELSE IF resp.status = 200 THEN Ret(GitHubProvider(host, ""), NoErr, TRUE)
    ELSE Ret(NilProvider, NoErr, TRUE)

NewGitHubProviderForHost_LowerHost(host, resp) ==
    IF ToLower(host) = "github.com" THEN Ret(GitHubProvider(ToLower(host), ""), NoErr, FALSE)
    ELSE IF resp.err THEN Ret(NilProvider, "transport error", TRUE)
    ELSE IF resp.status = 200 /\ resp.body.decodable /\ resp.body.hasCurrentUserURL
         THEN Ret(GitHubProvider(host, ""), NoErr, TRUE)
    ELSE Ret(NilProvider, NoErr, TRUE)

NewGitHubProviderForHost(host, resp) ==
    IF ToLower(host) = "github.com" THEN Ret(GitHubProvider(host, ""), NoErr, FALSE)
    ELSE IF resp.err THEN Ret(NilProvider, "transport error", TRUE)
    ELSE IF resp.status = 200 /\ resp.body.decodable /\ resp.body.hasCurrentUserURL
         THEN Ret(GitHubProvider(host, ""), NoErr, TRUE)
    ELSE Ret(NilProvider, NoErr, TRUE)

\* mutant of NewGitLabProviderForHost: a failed probe is taken for "no match"
NewGitLabProviderForHost_SwallowErr(host, resp) ==
    IF ToLower(host) = "gitlab.com" THEN Ret(GitLabProvider(host, ""), NoErr, FALSE)
    ELSE IF resp.err THEN Ret(NilProvider, NoErr, TRUE)
    ELSE IF resp.status = 200 /\ resp.body.decodable /\ resp.body.hasVersion
         THEN Ret(GitLabProvider(host, ""), NoErr, TRUE)
    ELSE Ret(NilProvider, NoErr, TRUE)

\* mutant of NewGitLabProviderForHost: a status other than 200 is an error
NewGitLabProviderForHost_ErrOnStatus(host, resp) ==
    IF ToLower(host) = "gitlab.com" THEN Ret(GitLabProvider(host, ""), NoErr, FALSE)
    ELSE IF resp.err THEN Ret(NilProvider, "transport error", TRUE)
    ELSE IF resp.status # 200 THEN Ret(NilProvider, "unexpected status", TRUE)
    ELSE IF resp.body.decodable /\ resp.body.hasVersion
         THEN Ret(GitLabProvider(host, ""), NoErr, TRUE)
    ELSE Ret(NilProvider, NoErr, TRUE)

NewGitLabProviderForHost(host, resp) ==
    IF ToLower(host) = "gitlab.com" THEN Ret(GitLabProvider(host, ""), NoErr, FALSE)
    ELSE IF resp.err THEN Ret(NilProvider, "transport error", TRUE)
    ELSE IF resp.status = 200 /\ resp.body.decodable /\ resp.body.hasVersion
         THEN Ret(GitLabProvider(host, ""), NoErr, TRUE)
    ELSE Ret(NilProvider, NoErr, TRUE)

\* mutant of detectGiteaOrForgejo: the version is searched as it was sent
detectGiteaOrForgejo_CaseSensitive(host, resp) ==
    LET lowerHost == ToLower(host) IN
    IF lowerHost = "codeberg.org"
    THEN Ret(PersonalAccessTokenProvider("forgejo", "codeberg.org", host), NoErr, FALSE)
    ELSE IF lowerHost = "gitea.com" \/ lowerHost = "gitea.io"
    THEN Ret(PersonalAccessTokenProvider("gitea", "gitea.com", host), NoErr, FALSE)
    ELSE IF resp.err THEN Ret(NilProvider, "transport error", TRUE)
    ELSE IF resp.status = 200 /\ resp.body.decodable
                /\ ContainsForgejo(resp.body.version)
         THEN Ret(PersonalAccessTokenProvider("forgejo", "", host), NoErr, TRUE)
    ELSE IF resp.status = 200 /\ resp.body.decodable /\ resp.body.version # ""
         THEN Ret(PersonalAccessTokenProvider("gitea", "gitea.com", host), NoErr, TRUE)
    ELSE Ret(NilProvider, NoErr, TRUE)

detectGiteaOrForgejo(host, resp) ==
    LET lowerHost == ToLower(host) IN
    IF lowerHost = "codeberg.org"
    THEN Ret(PersonalAccessTokenProvider("forgejo", "codeberg.org", host), NoErr, FALSE)
    ELSE IF lowerHost = "gitea.com" \/ lowerHost = "gitea.io"
    THEN Ret(PersonalAccessTokenProvider("gitea", "gitea.com", host), NoErr, FALSE)
    ELSE IF resp.err THEN Ret(NilProvider, "transport error", TRUE)
    ELSE IF resp.status = 200 /\ resp.body.decodable
                /\ ContainsForgejo(ToLower(resp.body.version))
         THEN Ret(PersonalAccessTokenProvider("forgejo", "", host), NoErr, TRUE)
    ELSE IF resp.status = 200 /\ resp.body.decodable /\ resp.body.version # ""
         THEN Ret(PersonalAccessTokenProvider("gitea", "gitea.com", host), NoErr, TRUE)
    ELSE Ret(NilProvider, NoErr, TRUE)

NewGiteaProviderForHost(host, resp) ==
    LET r == detectGiteaOrForgejo(host, resp) IN
    IF r.err # NoErr THEN Ret(NilProvider, r.err, r.http)
    ELSE IF r.provider # NilProvider /\ Name(r.provider) = "gitea" THEN r
    ELSE Ret(NilProvider, NoErr, r.http)

NewForgejoProviderForHost(host, resp) ==
    LET r == detectGiteaOrForgejo(host, resp) IN
    IF r.err # NoErr THEN Ret(NilProvider, r.err, r.http)
    ELSE IF r.provider # NilProvider /\ Name(r.provider) = "forgejo" THEN r
    ELSE Ret(NilProvider, NoErr, r.http)

-----------------------------------------------------------------------------
(* Registry *)

Names == {"github", "gitlab", "gitea", "forgejo", "codeberg", "test", "mock"}

\* the registrations made by the init() functions
BuiltinRegistry == {"github", "gitlab", "gitea", "forgejo", "codeberg"}

\* Registration.Detect is nil
DetectIsNil(name) == name \in {"codeberg", "test", "mock"}

\* Registration.DefaultHost
DefaultHost(name) ==
    CASE name = "github" -> "github.com"
      [] name = "gitlab" -> "gitlab.com"
      [] name = "gitea" -> "gitea.com"
      [] name = "forgejo" -> ""
      [] name = "codeberg" -> "codeberg.org"
      [] name = "test" -> "test.example.com"
      [] name = "mock" -> "mock.example.com"

\* mutant of RegNew: the configuration's client ID is left out
RegNew_NoClientID(name, cfg) ==
    CASE name = "github" -> GitHubProvider(cfg.Host, "")
      [] name = "gitlab" -> GitLabProvider(cfg.Host, "")
      [] name = "gitea" -> PersonalAccessTokenProvider("gitea", "gitea.com", cfg.Host)
      [] name = "forgejo" -> PersonalAccessTokenProvider("forgejo", "", cfg.Host)
      [] name = "codeberg" -> PersonalAccessTokenProvider("forgejo", "codeberg.org", cfg.Host)
      [] OTHER -> mockProvider(name, cfg.Host, "")

\* Registration.New
RegNew(name, cfg) ==
    CASE name = "github" -> GitHubProvider(cfg.Host, cfg.ClientID)
      [] name = "gitlab" -> GitLabProvider(cfg.Host, cfg.ClientID)
      [] name = "gitea" -> PersonalAccessTokenProvider("gitea", "gitea.com", cfg.Host)
      [] name = "forgejo" -> PersonalAccessTokenProvider("forgejo", "", cfg.Host)
      [] name = "codeberg" -> PersonalAccessTokenProvider("forgejo", "codeberg.org", cfg.Host)
      [] OTHER -> mockProvider(name, cfg.Host, cfg.ClientID)

\* Registration.Detect
RegDetect(name, host, resp) ==
    CASE name = "github" -> NewGitHubProviderForHost(host, resp)
      [] name = "gitlab" -> NewGitLabProviderForHost(host, resp)
      [] name = "gitea" -> NewGiteaProviderForHost(host, resp)
      [] name = "forgejo" -> NewForgejoProviderForHost(host, resp)

\* ProviderRegistration{New, DefaultHost}; New is named by the family whose
\* constructor it is
Registration(new, defaultHost) == [New |-> new, DefaultHost |-> defaultHost]

\* the registration the init() functions and the tests make under name
RegistrationOf(name) == Registration(name, DefaultHost(name))

\* the map registry holding the registrations of the names reg
RegistryMap(reg) == [name \in reg |-> RegistrationOf(name)]

\* mutant of Get: the provider is built with an empty configuration
Get_NoDefaultHost(m, name) ==
    IF name \notin DOMAIN m THEN [provider |-> NilProvider, ok |-> FALSE]
    ELSE [provider |-> RegNew(m[name].New, [Host |-> "", ClientID |-> ""]), ok |-> TRUE]

Get(m, name) ==
    IF name \notin DOMAIN m THEN [provider |-> NilProvider, ok |-> FALSE]
    ELSE [provider |-> RegNew(m[name].New, [Host |-> m[name].DefaultHost, ClientID |-> ""]),
          ok |-> TRUE]

\* mutant of GetWithConfig: the lookup's ok is tested the wrong way round
GetWithConfig_InvertedOk(m, name, cfg) ==
    IF name \in DOMAIN m THEN [provider |-> NilProvider, ok |-> FALSE]
    ELSE [provider |-> RegNew(name, IF cfg.Host = "" THEN [cfg EXCEPT !.Host = DefaultHost(name)] ELSE cfg),
          ok |-> TRUE]

GetWithConfig(m, name, cfg) ==
    IF name \notin DOMAIN m THEN [provider |-> NilProvider, ok |-> FALSE]
    ELSE [provider |-> RegNew(m[name].New,
                              IF cfg.Host = "" THEN [cfg EXCEPT !.Host = m[name].DefaultHost] ELSE cfg),
          ok |-> TRUE]

preferredOrder == <<"github", "gitlab", "gitea", "forgejo">>

RECURSIVE Perms(_)
\* the orders in which a range over a map can yield the keys S
Perms(S) ==
    IF S = {} THEN {<<>>}
    ELSE UNION {{<<x>> \o p : p \in Perms(S \ {x})} : x \in S}

InSeq(x, s) == \E i \in 1..Len(s) : s[i] = x

\* mutant of ListForDetection: the codeberg entry is listed like any other
ListForDetection_KeepAlias(reg, iter) ==
    LET IsReg(n) == n \in reg
        IsOther(n) == ~InSeq(n, preferredOrder)
    IN SelectSeq(preferredOrder, IsReg) \o SelectSeq(iter, IsOther)

\* mutant of ListForDetection: GitLab is tried before GitHub
ListForDetection_GitLabFirst(reg, iter) ==
    LET IsReg(n) == n \in reg
        IsOther(n) == ~InSeq(n, preferredOrder) /\ n # "codeberg"
    IN SelectSeq(<<"gitlab", "github", "gitea", "forgejo">>, IsReg) \o SelectSeq(iter, IsOther)

\* iter: the order in which the range over the registry yields its names
ListForDetection(reg, iter) ==
    LET IsReg(n) == n \in reg
        IsOther(n) == ~InSeq(n, preferredOrder) /\ n # "codeberg"
    IN SelectSeq(preferredOrder, IsReg) \o SelectSeq(iter, IsOther)

-----------------------------------------------------------------------------
(* Registry operations *)

RegisterProvider(name) ==
    /\ dpc = "idle"
    /\ registry' = registry \cup {name}
    /\ UNCHANGED <<dpc, dHost, dClientID, dOrder, dIdx, dCalls, dResult>>
    /\ UNCHANGED exceptDetectVars

\* SetRegistry(make(map[string]*Registration)), as the tests do
SetRegistry ==
    /\ dpc = "idle"
    /\ registry # {}
    /\ registry' = {}
    /\ UNCHANGED <<dpc, dHost, dClientID, dOrder, dIdx, dCalls, dResult>>
    /\ UNCHANGED exceptDetectVars

-----------------------------------------------------------------------------
(* Detect(ctx, host, clientID), one loop iteration per step *)

NoResult == [provider |-> NilProvider, err |-> NoErr]

DetectCall(host, clientID, iter) ==
    /\ dpc = "idle"
    /\ dpc' = "loop"
    /\ dHost' = host
    /\ dClientID' = clientID
    /\ dOrder' = ListForDetection(registry, iter)
    /\ dIdx' = 1
    /\ dCalls' = <<>>
    /\ dResult' = NoResult
    /\ UNCHANGED registry
    /\ UNCHANGED exceptDetectVars

\* a name whose registration has no detector is passed over
DetectSkip ==
    /\ dpc = "loop"
    /\ dIdx <= Len(dOrder)
    /\ dOrder[dIdx] \notin registry \/ DetectIsNil(dOrder[dIdx])
    /\ dIdx' = dIdx + 1
    /\ UNCHANGED <<registry, dpc, dHost, dClientID, dOrder, dCalls, dResult>>
    /\ UNCHANGED exceptDetectVars

Call(name, r, resp) ==
    [name |-> name, http |-> r.http, resp |-> IF r.http THEN resp ELSE NoResp,
     matched |-> r.provider # NilProvider, err |-> r.err]

DetectInvoke(resp) ==
    /\ dpc = "loop"
    /\ dIdx <= Len(dOrder)
    /\ dOrder[dIdx] \in registry /\ ~DetectIsNil(dOrder[dIdx])
    /\ LET name == dOrder[dIdx]
           r == RegDetect(name, dHost, resp)
       IN /\ dCalls' = Append(dCalls, Call(name, r, resp))
          /\ IF r.err # NoErr
             THEN /\ dResult' = [provider |-> NewUnknownProvider(dHost), err |-> NoErr]
                  /\ dpc' = "done"
                  /\ UNCHANGED dIdx
             ELSE IF r.provider # NilProvider
             THEN /\ dResult' =
                       [provider |-> IF dClientID # ""
                                     THEN GetWithConfig(RegistryMap(registry), name,
                                              [Host |-> dHost, ClientID |-> dClientID]).provider
                                     ELSE r.provider,
                        err |-> NoErr]
                  /\ dpc' = "done"
                  /\ UNCHANGED dIdx
             ELSE /\ dIdx' = dIdx + 1
                  /\ UNCHANGED <<dpc, dResult>>
    /\ UNCHANGED <<registry, dHost, dClientID, dOrder>>
    /\ UNCHANGED exceptDetectVars

DetectExhausted ==
    /\ dpc = "loop"
    /\ dIdx > Len(dOrder)
    /\ dResult' = [provider |-> NewUnknownProvider(dHost), err |-> NoErr]
    /\ dpc' = "done"
    /\ UNCHANGED <<registry, dHost, dClientID, dOrder, dIdx, dCalls>>
    /\ UNCHANGED exceptDetectVars

\* the caller takes the result; the next call starts afresh
DetectReturn ==
    /\ dpc = "done"
    /\ dpc' = "idle"
    /\ dHost' = ""
    /\ dClientID' = ""
    /\ dOrder' = <<>>
    /\ dIdx' = 1
    /\ dCalls' = <<>>
    /\ dResult' = NoResult
    /\ UNCHANGED registry
    /\ UNCHANGED exceptDetectVars

DetectInit ==
    /\ registry = BuiltinRegistry
    /\ dpc = "idle"
    /\ dHost = ""
    /\ dClientID = ""
    /\ dOrder = <<>>
    /\ dIdx = 1
    /\ dCalls = <<>>
    /\ dResult = NoResult

DetectNext ==
    \/ \E name \in Names : RegisterProvider(name)
    \/ SetRegistry
    \/ /\ dpc = "idle"
       /\ \E iter \in Perms(registry) :
              \E host \in Hosts, cid \in ClientIDs : DetectCall(host, cid, iter)
    \/ DetectSkip
    \/ \E resp \in Network(dHost) : DetectInvoke(resp)
    \/ DetectExhausted
    \/ DetectReturn

-----------------------------------------------------------------------------
(* GitLab device flow: Authenticate, requestDeviceCode, pollForToken *)

MaxTime == 22

MaxPolls == 4

\* the floor of the polling interval, and the slow_down increment, in seconds
MinInterval == 5

SlowDownStep == 5

\* device-code replies' "interval"
Intervals == {0, 5, 7}

Tokens == {"", "glpat-1", "glpat-2"}

ErrorCodes == {"authorization_pending", "slow_down", "expired_token", "access_denied",
               "invalid_grant"}

NilError == [msg |-> "", cause |-> ""]

Error(msg, cause) == [msg |-> msg, cause |-> cause]

\* fmt.Errorf(prefix + ": %w", err): errors.Is still sees the cause
Wrap(prefix, err) == [err EXCEPT !.msg = prefix \o ": " \o err.msg]

\* the reasons a context is done, ctx.Err() being "context " + reason
CtxReasons == {"canceled", "deadline exceeded"}

\* the error of client.Do: a *url.Error, "<Method> <url>: <cause>", whose cause
\* is ctx.Err() when the request's context is done
DoError(done) ==
    IF done \in CtxReasons THEN Error("Post: context " \o done, done)
    ELSE Error("Post: connection refused", "transport")

\* replies of the token endpoint
TokenReply(err, status, decodable, token, code) ==
    [err |-> err, status |-> status, decodable |-> decodable, access_token |-> token,
     token_type |-> IF status = 200 /\ decodable THEN "Bearer" ELSE "",
     error |-> code, error_description |-> IF code = "" THEN "" ELSE "description"]

TokenReplies ==
    {TokenReply(TRUE, 0, FALSE, "", "")}
    \cup {TokenReply(FALSE, st, FALSE, "", "") : st \in {200, 400}}
    \cup {TokenReply(FALSE, 200, TRUE, t, "") : t \in Tokens}
    \cup {TokenReply(FALSE, 400, TRUE, "", c) : c \in ErrorCodes \cup {""}}

\* replies of the device-code endpoint
CodeReplies ==
    {[err |-> TRUE, status |-> 0, decodable |-> FALSE, interval |-> 0]}
    \cup {[err |-> FALSE, status |-> st, decodable |-> d, interval |-> 0] :
             st \in {400}, d \in BOOLEAN}
    \cup {[err |-> FALSE, status |-> 200, decodable |-> FALSE, interval |-> 0]}
    \cup {[err |-> FALSE, status |-> 200, decodable |-> TRUE, interval |-> i] : i \in Intervals}

AuthHosts == {"", "gitlab.com", "gitlab.example.com", "github.com", "github.example.com"}

DefaultGitLabClientID == "41d48f9422ebd655dd9cf2947d6979681dfaddc6d0c56f7628f6ada59559af1e"

DefaultGitHubClientID == "178c6fc778ccc68e1d6a"

\* mutant of gitLabClientID: the built-in client ID is used on every host
gitLabClientID_AnyHost(p) ==
    IF p.clientID # "" THEN p.clientID ELSE DefaultGitLabClientID

\* the client ID GitLabProvider.Authenticate goes on with, "" when it has none
gitLabClientID(p) ==
    IF p.clientID # "" THEN p.clientID
    ELSE IF p.host = "gitlab.com" \/ p.host = "" THEN DefaultGitLabClientID
    ELSE ""

\* the client ID GitHubProvider.Authenticate goes on with, "" when it has none
gitHubClientID(p) ==
    IF p.clientID # "" THEN p.clientID
    ELSE IF p.host = "github.com" \/ p.host = "" THEN DefaultGitHubClientID
    ELSE ""

\* GitLabProvider.Authenticate up to the device-code request: the client ID
\* is resolved
Authenticate(host, cid) ==
    /\ apc = "idle"
    /\ g' = GitLabProvider(host, cid)
    /\ IF gitLabClientID(g') # ""
       THEN /\ aClientID' = gitLabClientID(g')
            /\ apc' = "requestingCode"
            /\ netCalls' = netCalls + 1
            /\ UNCHANGED aResult
       ELSE /\ aResult' = [token |-> "",
                           err |-> Error("client ID required for GitLab self-hosted (use --client-id flag or GITLAB_CLIENT_ID env var)", "")]
            /\ apc' = "done"
            /\ UNCHANGED <<aClientID, netCalls>>
    /\ UNCHANGED <<interval, now, tPeriod, tNext, tPending, ctxDone, pReqs, pReplies>>
    /\ UNCHANGED exceptAuthVars

\* GitHubProvider.Authenticate up to device.RequestCode: the client ID is
\* resolved; the device flow itself is the library's (github.com/cli/oauth)
GitHubAuthenticate(host, cid) ==
    /\ apc = "idle"
    /\ g' = GitHubProvider(host, cid)
    /\ IF gitHubClientID(g') # ""
       THEN /\ aClientID' = gitHubClientID(g')
            /\ apc' = "deviceLibrary"
            /\ netCalls' = netCalls + 1
            /\ UNCHANGED aResult
       ELSE /\ aResult' = [token |-> "",
                           err |-> Error("client ID required for GitHub Enterprise (use --client-id flag)", "")]
            /\ apc' = "done"
            /\ UNCHANGED <<aClientID, netCalls>>
    /\ UNCHANGED <<interval, now, tPeriod, tNext, tPending, ctxDone, pReqs, pReplies>>
    /\ UNCHANGED exceptAuthVars

\* what device.RequestCode followed by device.Wait can come to
LibraryOutcomes == {"requestCodeFailed", "waitFailed", "token"}

\* device.RequestCode or device.Wait returns to GitHubProvider.Authenticate
GitHubDeviceFlowReturns(outcome, token) ==
    /\ apc = "deviceLibrary"
    /\ aResult' =
           CASE outcome = "requestCodeFailed" ->
                    [token |-> "", err |-> Wrap("failed to request device code", DoError(""))]
             [] outcome = "waitFailed" ->
                    [token |-> "", err |-> Wrap("failed to get access token", Error("access_denied", ""))]
             [] OTHER -> [token |-> token, err |-> NilError]
    /\ apc' = "done"
    /\ UNCHANGED <<g, aClientID, interval, now, tPeriod, tNext, tPending, ctxDone, pReqs,
                   pReplies, netCalls>>
    /\ UNCHANGED exceptAuthVars

\* requestDeviceCode returns; on success pollForToken starts and creates its ticker
requestDeviceCode(resp) ==
    /\ apc = "requestingCode"
    /\ ctxDone # "" => resp.err
    /\ IF resp.err
       THEN /\ aResult' = [token |-> "",
                           err |-> Wrap("failed to request device code", DoError(ctxDone))]
            /\ apc' = "done"
            /\ UNCHANGED <<interval, tPeriod, tNext>>
       ELSE IF resp.status # 200
       THEN /\ aResult' = [token |-> "",
                           err |-> Wrap("failed to request device code",
                                        Error(IF resp.decodable THEN "error: description"
                                              ELSE "unexpected status code", ""))]
            /\ apc' = "done"
            /\ UNCHANGED <<interval, tPeriod, tNext>>
       ELSE IF ~resp.decodable
       THEN /\ aResult' = [token |-> "",
                           err |-> Wrap("failed to request device code",
                                        Error("failed to decode response", ""))]
            /\ apc' = "done"
            /\ UNCHANGED <<interval, tPeriod, tNext>>
       ELSE /\ interval' = IF resp.interval < MinInterval THEN MinInterval ELSE resp.interval
            /\ tPeriod' = interval'
            /\ tNext' = now + interval'
            /\ apc' = "select"
            /\ UNCHANGED aResult
    /\ UNCHANGED <<g, aClientID, now, tPending, ctxDone, pReqs, pReplies, netCalls>>
    /\ UNCHANGED exceptAuthVars

\* a second passes; the ticker fires when its time comes, and a tick that
\* finds one already waiting in ticker.C is dropped
Advance ==
    /\ apc \in {"select", "inflight"}
    /\ apc = "select" => ~tPending /\ ctxDone = ""
    /\ now < MaxTime
    /\ now' = now + 1
    /\ IF now' = tNext
       THEN /\ tPending' = TRUE
            /\ tNext' = tNext + tPeriod
       ELSE UNCHANGED <<tPending, tNext>>
    /\ UNCHANGED <<apc, g, aClientID, interval, tPeriod, ctxDone, pReqs, pReplies, netCalls, aResult>>
    /\ UNCHANGED exceptAuthVars

\* the caller's context is cancelled or its deadline passes
Cancel(reason) ==
    /\ apc \in {"requestingCode", "select", "inflight"}
    /\ ctxDone = ""
    /\ ctxDone' = reason
    /\ UNCHANGED <<apc, g, aClientID, interval, now, tPeriod, tNext, tPending, pReqs, pReplies, netCalls, aResult>>
    /\ UNCHANGED exceptAuthVars

\* mutant of SelectDone: the select has no case for ctx.Done()
SelectDone_NoCase == FALSE /\ UNCHANGED vars

\* select takes case <-ctx.Done()
SelectDone ==
    /\ apc = "select"
    /\ ctxDone # ""
    /\ aResult' = [token |-> "",
                   err |-> Wrap("failed to get access token", Error("context " \o ctxDone, ctxDone))]
    /\ apc' = "done"
    /\ UNCHANGED <<g, aClientID, interval, now, tPeriod, tNext, tPending, ctxDone, pReqs, pReplies, netCalls>>
    /\ UNCHANGED exceptAuthVars

\* select takes case <-ticker.C and client.Do sends the token request; with
\* ctx already done client.Do fails before anything is sent
SelectTick ==
    /\ apc = "select"
    /\ tPending
    /\ Len(pReqs) < MaxPolls
    /\ tPending' = FALSE
    /\ IF ctxDone # ""
       THEN /\ aResult' = [token |-> "",
                           err |-> Wrap("failed to get access token", DoError(ctxDone))]
            /\ apc' = "done"
            /\ UNCHANGED <<pReqs, netCalls>>
       ELSE /\ pReqs' = Append(pReqs, now)
            /\ netCalls' = netCalls + 1
            /\ apc' = "inflight"
            /\ UNCHANGED aResult
    /\ UNCHANGED <<g, aClientID, interval, now, tPeriod, tNext, ctxDone, pReplies>>
    /\ UNCHANGED exceptAuthVars

\* mutant of SuccessToken: the token type is returned for the token
SuccessToken_TokenType(reply) == reply.token_type

\* what pollForToken returns on HTTP 200
SuccessToken(reply) == reply.access_token

\* mutant of TokenError: the messages of expired_token and access_denied are swapped
TokenError_Swapped(reply) ==
    CASE reply.error = "expired_token" -> Error("access denied by user", "")
      [] reply.error = "access_denied" -> Error("device code expired, please try again", "")
      [] OTHER -> Error(reply.error \o ": " \o reply.error_description, "")

\* the error pollForToken returns for an error code that ends the polling
TokenError(reply) ==
    CASE reply.error = "expired_token" -> Error("device code expired, please try again", "")
      [] reply.error = "access_denied" -> Error("access denied by user", "")
      [] OTHER -> Error(reply.error \o ": " \o reply.error_description, "")

Fail(err) ==
    /\ aResult' = [token |-> "", err |-> Wrap("failed to get access token", err)]
    /\ apc' = "done"
    /\ UNCHANGED <<tPeriod, tNext, tPending>>

\* client.Do returns and the rest of the loop body runs; stale says whether
\* a tick already waiting in ticker.C survives ticker.Reset (it does before
\* Go 1.23 and does not from Go 1.23 on)
TokenResponse(reply, stale) ==
    /\ apc = "inflight"
    /\ ctxDone # "" => reply.err
    /\ pReplies' = Append(pReplies, reply)
    /\ IF reply.err
       THEN Fail(DoError(ctxDone))
       ELSE IF reply.status = 200
       THEN IF ~reply.decodable
            THEN Fail(Error("failed to decode token response", ""))
            ELSE /\ aResult' = [token |-> SuccessToken(reply), err |-> NilError]
                 /\ apc' = "done"
                 /\ UNCHANGED <<tPeriod, tNext, tPending>>
       ELSE IF ~reply.decodable
       THEN Fail(Error("unexpected response from token endpoint", ""))
       ELSE CASE reply.error = "authorization_pending" ->
                   /\ apc' = "select"
                   /\ UNCHANGED <<aResult, tPeriod, tNext, tPending>>
              [] reply.error = "slow_down" ->
                   /\ tPeriod' = interval + SlowDownStep
                   /\ tNext' = now + tPeriod'
                   /\ tPending' = (tPending /\ stale)
                   /\ apc' = "select"
                   /\ UNCHANGED aResult
              [] OTHER -> Fail(TokenError(reply))
    /\ UNCHANGED <<g, aClientID, interval, now, ctxDone, pReqs, netCalls>>
    /\ UNCHANGED exceptAuthVars

AuthInit ==
    /\ apc = "idle"
    /\ g = NilProvider
    /\ aClientID = ""
    /\ interval = 0
    /\ now = 0
    /\ tPeriod = 0
    /\ tNext = 0
    /\ tPending = FALSE
    /\ ctxDone = ""
    /\ pReqs = <<>>
    /\ pReplies = <<>>
    /\ netCalls = 0
    /\ aResult = [token |-> "", err |-> NilError]

AuthNext ==
    \/ \E host \in AuthHosts, cid \in ClientIDs : Authenticate(host, cid)
    \/ \E host \in AuthHosts, cid \in ClientIDs : GitHubAuthenticate(host, cid)
    \/ \E outcome \in LibraryOutcomes, token \in Tokens : GitHubDeviceFlowReturns(outcome, token)
    \/ \E resp \in CodeReplies : requestDeviceCode(resp)
    \/ Advance
    \/ \E reason \in CtxReasons : Cancel(reason)
    \/ SelectDone
    \/ SelectTick
    \/ \E reply \in TokenReplies, stale \in BOOLEAN : TokenResponse(reply, stale)

-----------------------------------------------------------------------------
(* Provider operations: ValidateToken, GetUserInfo, GetTokenScopes, and the *)
(* Authenticate of the PAT providers and of the Unknown provider            *)

OpTokens == {"tok-a", "tok-b"}

OpHosts == {"", "git.example.com"}

ValidationStatusValid == "Valid"

ValidationStatusInvalid == "Invalid"

ValidationStatusUnknown == "Unknown"

\* what the request to an endpoint comes to: a failed round trip, or a status
\* with a body that decodes or not
UserReply(err, status, decodable) == [err |-> err, status |-> status, decodable |-> decodable]

NoReply == UserReply(FALSE, 0, FALSE)

UserReplies ==
    {UserReply(TRUE, 0, FALSE), UserReply(FALSE, 200, TRUE),
     UserReply(FALSE, 401, FALSE), UserReply(FALSE, 500, FALSE)}

\* a server's behaviour: how its current-user endpoint answers, per token
Servers == [OpTokens -> UserReplies]

\* the answer to a request of provider p carrying the token: a URL without a
\* host is never sent, and a token the server does not know is answered 401
Reply(p, srv, token) ==
    IF Host(p) = "" THEN UserReply(TRUE, 0, FALSE)
    ELSE IF token \in DOMAIN srv THEN srv[token]
    ELSE UserReply(FALSE, 401, FALSE)

\* fmt's %d of a status code
StatusText(status) ==
    CASE status = 401 -> "401"
      [] status = 404 -> "404"
      [] status = 500 -> "500"
      [] OTHER -> "200"

\* mutant of makeAuthenticatedRequest: only 401 is an error
makeAuthenticatedRequest_Only401(reply) ==
    IF reply.err THEN [ok |-> FALSE, err |-> Error("Get: connection refused", "transport")]
    ELSE IF reply.status = 401
    THEN [ok |-> FALSE, err |-> Error("token is invalid or expired", "")]
    ELSE [ok |-> TRUE, err |-> NilError]

\* makeAuthenticatedRequest: (response, error) of the authenticated GET
makeAuthenticatedRequest(reply) ==
    IF reply.err THEN [ok |-> FALSE, err |-> Error("Get: connection refused", "transport")]
    ELSE IF reply.status = 401
    THEN [ok |-> FALSE, err |-> Error("token is invalid or expired", "")]
    ELSE IF reply.status = 200 THEN [ok |-> TRUE, err |-> NilError]
    ELSE [ok |-> FALSE, err |-> Error("unexpected status code: " \o StatusText(reply.status), "")]

Validation(status, err) == [status |-> status, err |-> err]

GitHubValidateToken(reply) ==
    LET r == makeAuthenticatedRequest(reply) IN
    IF r.err # NilError
    THEN Validation(ValidationStatusInvalid, Wrap("failed to validate token", r.err))
    ELSE Validation(ValidationStatusValid, NilError)

GitLabValidateToken(reply) ==
    LET r == makeAuthenticatedRequest(reply) IN
    IF r.err # NilError
    THEN Validation(ValidationStatusInvalid, Wrap("failed to validate token", r.err))
    ELSE Validation(ValidationStatusValid, NilError)

PATValidateToken(reply) ==
    LET r == makeAuthenticatedRequest(reply) IN
    IF r.err # NilError
    THEN Validation(ValidationStatusInvalid, Wrap("failed to validate token", r.err))
    ELSE Validation(ValidationStatusValid, NilError)

\* mutant of UnknownValidateToken: the token is taken for valid
UnknownValidateToken_Valid == Validation(ValidationStatusValid, NilError)

UnknownValidateToken == Validation(ValidationStatusUnknown, NilError)

\* mutant of validate: the status of the call before is kept for the next
\* one, whatever its token
validate_Cached(p, reply) ==
    IF last.status # ""
    THEN Validation(last.status, last.err)
    ELSE IF p.kind = "unknown" THEN UnknownValidateToken
    ELSE PATValidateToken(reply)

\* p.ValidateToken, by the type of p; reply is the answer to its request
validate(p, reply) ==
    CASE p.kind = "github" -> GitHubValidateToken(reply)
      [] p.kind = "gitlab" -> GitLabValidateToken(reply)
      [] p.kind = "pat" -> PATValidateToken(reply)
      [] OTHER -> UnknownValidateToken

\* whether p's method sends a request
UsesNetwork(p) == p.kind # "unknown"

UserInfo(username, fullName, err) == [username |-> username, fullName |-> fullName, err |-> err]

\* GetUserInfo of the GitHub, GitLab and PAT providers
KnownGetUserInfo(reply) ==
    LET r == makeAuthenticatedRequest(reply) IN
    IF r.err # NilError THEN UserInfo("", "", Wrap("failed to get user info", r.err))
    ELSE IF ~reply.decodable
    THEN UserInfo("", "", Wrap("failed to decode response", Error("invalid character", "")))
    ELSE UserInfo("octocat", "", NilError)

UnknownGetUserInfo == UserInfo("", "", Error("user info not available for unknown provider", ""))

\* the X-OAuth-Scopes header of GitHub's reply
ScopeHeaders == {"", "repo, gist"}

\* the header split at commas, each part trimmed, empty parts dropped
ParseScopes(header) == IF header = "repo, gist" THEN <<"repo", "gist">> ELSE <<>>

Scopes(scopes, err) == [scopes |-> scopes, err |-> err]

GitHubGetTokenScopes(reply, header) ==
    LET r == makeAuthenticatedRequest(reply) IN
    IF r.err # NilError THEN Scopes(<<>>, Wrap("failed to check token scopes", r.err))
    ELSE Scopes(ParseScopes(header), NilError)

\* answers of GitLab's personal_access_tokens/self endpoint
ScopeReplies == UserReplies \cup {UserReply(FALSE, 200, FALSE), UserReply(FALSE, 404, FALSE)}

GitLabGetTokenScopes(reply) ==
    IF reply.err
    THEN Scopes(<<>>, Wrap("failed to check token info", Error("Get: connection refused", "transport")))
    ELSE IF reply.status = 401 THEN Scopes(<<>>, Error("token is invalid or expired", ""))
    ELSE IF reply.status = 404 THEN Scopes(<<"read_api", "read_repository">>, NilError)
    ELSE IF reply.status # 200
    THEN Scopes(<<>>, Error("unexpected status code: " \o StatusText(reply.status), ""))
    ELSE IF ~reply.decodable
    THEN Scopes(<<>>, Wrap("failed to decode response", Error("invalid character", "")))
    ELSE Scopes(<<"read_api">>, NilError)

PATGetTokenScopes == Scopes(<<"read:repository", "read:user">>, NilError)

UnknownGetTokenScopes == Scopes(<<>>, NilError)

-----------------------------------------------------------------------------
(* Standard input *)

\* the lines an Authenticate reads at most: an answer or Enter, then the
\* token; what follows them on the input is never read
LinesRead == 2

\* lines a user or a pipe can supply, as typed
RawLines == {"\n", "y\n", "Y\n", "n\n", " tok-a \n"}

\* the inputs: no line at all (end of file at once), or up to LinesRead lines
Stdins == UNION {[1..n -> RawLines] : n \in 0..LinesRead}

\* strings.TrimSpace(strings.TrimSuffix(line, "\n")) on the lines of the model
TrimSpace(line) ==
    CASE line = "\n" -> ""
      [] line = "y\n" -> "y"
      [] line = "Y\n" -> "Y"
      [] line = "n\n" -> "n"
      [] line = " tok-a \n" -> "tok-a"
      [] line = " \n" -> ""
      [] line = "s\n" -> "s"
      [] line = " tok-a " -> "tok-a"
      [] line = " " -> ""

Input(s, err, rest) == [s |-> s, err |-> err, rest |-> rest]

\* ui.ReadInput on the input in: the line read, the error, and what is left of
\* the input for the next reader. Each call reads through a bufio.Reader of
\* its own, which on a pipe can take more than the line it returns; ahead
\* says whether it took the rest of the input along with the line
ReadInput(in, ahead) ==
    IF in = <<>> THEN Input("", Wrap("failed to read input", Error("EOF", "EOF")), <<>>)
    ELSE Input(TrimSpace(Head(in)), NilError, IF ahead THEN <<>> ELSE Tail(in))

\* ui.ReadSecureInput: term.ReadPassword on a terminal, a bufio.Reader otherwise
ReadSecureInput(in, ahead) ==
    IF in = <<>> THEN Input("", Wrap("failed to read input", Error("EOF", "EOF")), <<>>)
    ELSE Input(TrimSpace(Head(in)), NilError, IF ahead THEN <<>> ELSE Tail(in))

\* mutant of ReadYesNo: anything but "n" is a yes
ReadYesNo_DefaultYes(in, ahead) ==
    LET r == ReadInput(in, ahead) IN
    [yes |-> r.err = NilError /\ r.s # "n", err |-> r.err, rest |-> r.rest]

\* ui.ReadYesNo
ReadYesNo(in, ahead) ==
    LET r == ReadInput(in, ahead) IN
    [yes |-> r.err = NilError /\ (r.s = "y" \/ r.s = "Y"), err |-> r.err, rest |-> r.rest]

-----------------------------------------------------------------------------
(* The operations, each called on prov *)

\* what a call was given, did and returned. arg is its token argument and
\* in the standard input it found; did lists, in order, the prompts it read
\* an answer to, the browser launch and the requests it sent; validated is
\* the token it passed to ValidateToken ("" when it did not validate), and
\* repeat says that ValidateToken had been given that token before
Outcome(op, arg, in, reply, did, validated, status, err, token, username, scopes) ==
    [op |-> op, arg |-> arg, in |-> in, reply |-> reply, did |-> did,
     validated |-> validated,
     repeat |-> validated \in OpTokens /\ seen[validated] # {},
     status |-> status, err |-> err, token |-> token,
     username |-> username, scopes |-> scopes]

NoOutcome ==
    [op |-> "", arg |-> "", in |-> <<>>, reply |-> NoReply, did |-> <<>>, validated |-> "",
     repeat |-> FALSE, status |-> "", err |-> NilError, token |-> "", username |-> "",
     scopes |-> <<>>]

NoneSeen == [t \in OpTokens |-> {}]

\* seen after ValidateToken returned status for token
Record(token, status) ==
    IF token \in OpTokens THEN [seen EXCEPT ![token] = @ \cup {status}] ELSE seen

\* a provider is made by the registry for a name and a configuration, to
\* talk to a server of behaviour srv
NewProvider(name, host, cid, srv) ==
    /\ prov = NilProvider
    /\ prov' = GetWithConfig(RegistryMap(BuiltinRegistry), name, [Host |-> host, ClientID |-> cid]).provider
    /\ server' = srv
    /\ UNCHANGED <<seen, last>>
    /\ UNCHANGED exceptOpVars

\* the Unknown provider is made for a host
NewUnknown(host, srv) ==
    /\ prov = NilProvider
    /\ prov' = NewUnknownProvider(host)
    /\ server' = srv
    /\ UNCHANGED <<seen, last>>
    /\ UNCHANGED exceptOpVars

Sent(p) == IF UsesNetwork(p) /\ Host(p) # "" THEN <<"request">> ELSE <<>>

ValidateToken(token) ==
    /\ prov # NilProvider
    /\ LET reply == IF UsesNetwork(prov) THEN Reply(prov, server, token) ELSE NoReply
           v == validate(prov, reply)
       IN /\ last' = Outcome("ValidateToken", token, <<>>, reply, Sent(prov), token,
                             v.status, v.err, "", "", <<>>)
          /\ seen' = Record(token, v.status)
    /\ UNCHANGED <<prov, server>>
    /\ UNCHANGED exceptOpVars

\* decodable: the body of a 200 answer is the JSON GetUserInfo expects
GetUserInfo(token, decodable) ==
    /\ prov # NilProvider
    /\ LET answer == IF UsesNetwork(prov) THEN Reply(prov, server, token) ELSE NoReply
           reply == [answer EXCEPT !.decodable = @ /\ decodable]
           u == IF prov.kind = "unknown" THEN UnknownGetUserInfo ELSE KnownGetUserInfo(reply)
       IN last' = Outcome("GetUserInfo", token, <<>>, reply, Sent(prov), "", "", u.err, "",
                          u.username, <<>>)
    /\ UNCHANGED <<prov, server, seen>>
    /\ UNCHANGED exceptOpVars

\* header and scopeReply are what GitHub's and GitLab's servers add to the
\* answer: the X-OAuth-Scopes header, the token-info endpoint's reply
GetTokenScopes(token, header, scopeReply) ==
    /\ prov # NilProvider
    /\ prov.kind = "github" \/ header = ""
    /\ prov.kind = "gitlab" \/ scopeReply = NoReply
    /\ LET reply == CASE prov.kind = "github" -> Reply(prov, server, token)
                      [] prov.kind = "gitlab" ->
                             IF Host(prov) = "" THEN UserReply(TRUE, 0, FALSE) ELSE scopeReply
                      [] OTHER -> NoReply
           s == CASE prov.kind = "github" -> GitHubGetTokenScopes(reply, header)
                  [] prov.kind = "gitlab" -> GitLabGetTokenScopes(reply)
                  [] prov.kind = "pat" -> PATGetTokenScopes
                  [] OTHER -> UnknownGetTokenScopes
       IN last' = Outcome("GetTokenScopes", token, <<>>, reply,
                          IF prov.kind \in {"github", "gitlab"} THEN Sent(prov) ELSE <<>>,
                          "", "", s.err, "", "", s.scopes)
    /\ UNCHANGED <<prov, server, seen>>
    /\ UNCHANGED exceptOpVars

\* mutant of PATAccepts: the token is returned whatever its validation says
PATAccepts_Any(status) == TRUE

\* PersonalAccessTokenProvider.Authenticate returns the token it validated
PATAccepts(status) == status = ValidationStatusValid

\* mutant of PATHostMissing: the host is not looked at
PATHostMissing_Never(p) == FALSE

\* PersonalAccessTokenProvider.Authenticate has no host to go to
PATHostMissing(p) == Host(p) = ""

\* the error PersonalAccessTokenProvider.Authenticate returns for what
\* ReadSecureInput gave it, nil when it goes on to validate the token
PATTokenError(r) ==
    IF r.err # NilError THEN Wrap("failed to read token", r.err)
    ELSE IF r.s = "" THEN Error("token cannot be empty", "")
    ELSE NilError

\* PersonalAccessTokenProvider.Authenticate on the input in
PATAuthenticate(in, ahead) ==
    /\ prov.kind = "pat"
    /\ ahead => Len(in) > 1
    /\ IF PATHostMissing(prov)
       THEN /\ last' = Outcome("Authenticate", "", in, NoReply, <<>>, "", "",
                               Error("--host flag is required for " \o prov.providerName
                                         \o " provider (e.g., --host git.company.com)", ""),
                               "", "", <<>>)
            /\ UNCHANGED seen
       ELSE LET enter == ReadInput(in, ahead)
                r == ReadSecureInput(enter.rest, FALSE)
                prompts == <<"prompt: Press Enter", "browser", "prompt: token">>
            IN IF PATTokenError(r) # NilError
               THEN /\ last' = Outcome("Authenticate", "", in, NoReply, prompts, "", "",
                                       PATTokenError(r), "", "", <<>>)
                    /\ UNCHANGED seen
               ELSE LET reply == Reply(prov, server, r.s)
                        v == validate(prov, reply)
                    IN /\ last' = Outcome("Authenticate", "", in, reply, prompts \o Sent(prov),
                                          r.s, v.status,
                                          IF PATAccepts(v.status) THEN NilError
                                          ELSE IF v.err # NilError THEN Wrap("invalid token", v.err)
                                          ELSE Error("invalid token", ""),
                                          IF PATAccepts(v.status) THEN r.s ELSE "",
                                          "", <<>>)
                       /\ seen' = Record(r.s, v.status)
    /\ UNCHANGED <<prov, server>>
    /\ UNCHANGED exceptOpVars

\* UnknownProvider.Authenticate on the input in
UnknownAuthenticate(in, ahead) ==
    /\ prov.kind = "unknown"
    /\ ahead => Len(in) > 1
    /\ LET confirm == ReadYesNo(in, ahead)
           r == ReadSecureInput(confirm.rest, FALSE)
       IN last' =
            IF confirm.err # NilError
            THEN Outcome("Authenticate", "", in, NoReply, <<"prompt: confirm">>, "", "",
                         Wrap("failed to read confirmation", confirm.err), "", "", <<>>)
            ELSE IF ~confirm.yes
            THEN Outcome("Authenticate", "", in, NoReply, <<"prompt: confirm">>, "", "",
                         Error("login cancelled", ""), "", "", <<>>)
            ELSE Outcome("Authenticate", "", in, NoReply, <<"prompt: confirm", "prompt: token">>, "", "",
                         IF r.err # NilError THEN Wrap("failed to read token", r.err)
                         ELSE IF r.s = "" THEN Error("token cannot be empty", "")
                         ELSE NilError,
                         IF r.err = NilError THEN r.s ELSE "",
                         "", <<>>)
    /\ UNCHANGED <<prov, server, seen>>
    /\ UNCHANGED exceptOpVars

OpInit ==
    /\ prov = NilProvider
    /\ server = [t \in OpTokens |-> NoReply]
    /\ seen = NoneSeen
    /\ last = NoOutcome

OpNext ==
    \/ \E name \in BuiltinRegistry, host \in OpHosts, cid \in ClientIDs, srv \in Servers :
           NewProvider(name, host, cid, srv)
    \/ \E host \in OpHosts, srv \in Servers : NewUnknown(host, srv)
    \/ \E token \in OpTokens : ValidateToken(token)
    \/ \E token \in OpTokens, decodable \in BOOLEAN : GetUserInfo(token, decodable)
    \/ \E token \in OpTokens, header \in ScopeHeaders, scopeReply \in ScopeReplies \cup {NoReply} :
           GetTokenScopes(token, header, scopeReply)
    \/ \E in \in Stdins, ahead \in BOOLEAN : PATAuthenticate(in, ahead)
    \/ \E in \in Stdins, ahead \in BOOLEAN : UnknownAuthenticate(in, ahead)

-----------------------------------------------------------------------------
(* The registry map: RegisterProvider, SetRegistry, Get, GetWithConfig, and *)
(* the Gitea and Forgejo detectors asked about one server                   *)

MaxRegistrations == 2

\* names the tests register under, and names looked up
RegNames == {"github", "mock"}

LookupNames == {"github", "forgejo", "mock", "nonexistent"}

\* registrations the tests make: the built-in ones, a mock under its own
\* default host, and a mock put in the place of a built-in provider
Registrations ==
    {RegistrationOf("github"), RegistrationOf("mock"),
     Registration("mock", "github.com"), Registration("forgejo", "")}

LookupHosts == {"", "git.example.com"}

ProbeHosts == {"git.example.com", "Codeberg.ORG", "gitea.com"}

Registered(name, reg, by) == [name |-> name, reg |-> reg, by |-> by]

\* the registrations of the init() functions, in the order of their files
InitLog ==
    <<Registered("forgejo", RegistrationOf("forgejo"), "init"),
      Registered("codeberg", RegistrationOf("codeberg"), "init"),
      Registered("gitea", RegistrationOf("gitea"), "init"),
      Registered("github", RegistrationOf("github"), "init"),
      Registered("gitlab", RegistrationOf("gitlab"), "init")>>

NoConfig == [Host |-> "", ClientID |-> ""]

NoMatch == Ret(NilProvider, NoErr, FALSE)

\* a call on the registry: what it was given and what it returned; requests
\* counts the HTTP requests it sent
RegCall(op, name, cfg, ret, host, resp, gitea, forgejo, requests) ==
    [op |-> op, name |-> name, cfg |-> cfg, provider |-> ret.provider, ok |-> ret.ok,
     host |-> host, resp |-> resp, gitea |-> gitea, forgejo |-> forgejo,
     requests |-> requests]

NoRegCall ==
    RegCall("", "", NoConfig, [provider |-> NilProvider, ok |-> FALSE], "", NoResp,
            NoMatch, NoMatch, 0)

IsCall(e) == e.by = "call"

\* registry[name] = &reg
RegisterProviderAs(name, reg) ==
    /\ Len(SelectSeq(regLog, IsCall)) < MaxRegistrations
    /\ regs' = (name :> reg) @@ regs
    /\ regLog' = Append(regLog, Registered(name, reg, "call"))
    /\ rLast' = RegCall("RegisterProvider", name, NoConfig, [provider |-> NilProvider, ok |-> FALSE],
                        "", NoResp, NoMatch, NoMatch, 0)
    /\ UNCHANGED exceptRegVars

\* SetRegistry(make(map[string]*ProviderRegistration))
SetRegistryEmpty ==
    /\ regLog # <<>>
    /\ regs' = RegistryMap({})
    /\ regLog' = <<>>
    /\ rLast' = RegCall("SetRegistry", "", NoConfig, [provider |-> NilProvider, ok |-> FALSE],
                        "", NoResp, NoMatch, NoMatch, 0)
    /\ UNCHANGED exceptRegVars

GetCall(name) ==
    /\ rLast' = RegCall("Get", name, NoConfig, Get(regs, name), "", NoResp, NoMatch, NoMatch, 0)
    /\ UNCHANGED <<regs, regLog>>
    /\ UNCHANGED exceptRegVars

GetWithConfigCall(name, cfg) ==
    /\ rLast' = RegCall("GetWithConfig", name, cfg, GetWithConfig(regs, name, cfg), "", NoResp,
                        NoMatch, NoMatch, 0)
    /\ UNCHANGED <<regs, regLog>>
    /\ UNCHANGED exceptRegVars

HTTPCount(r) == IF r.http THEN 1 ELSE 0

\* the Detect functions registered for gitea and forgejo, each asked about
\* host while the server answers resp to GET /api/v1/version
DetectGiteaAndForgejo(host, resp) ==
    /\ LET gitea == NewGiteaProviderForHost(host, resp)
           forgejo == NewForgejoProviderForHost(host, resp)
       IN rLast' = RegCall("Detect", "", NoConfig, [provider |-> NilProvider, ok |-> FALSE],
                           host, resp, gitea, forgejo, HTTPCount(gitea) + HTTPCount(forgejo))
    /\ UNCHANGED <<regs, regLog>>
    /\ UNCHANGED exceptRegVars

RegInit ==
    /\ regs = RegistryMap(BuiltinRegistry)
    /\ regLog = InitLog
    /\ rLast = NoRegCall

RegNext ==
    \/ \E name \in RegNames : \E reg \in Registrations : RegisterProviderAs(name, reg)
    \/ SetRegistryEmpty
    \/ \E name \in LookupNames : GetCall(name)
    \/ \E name \in LookupNames : \E host \in LookupHosts : \E cid \in ClientIDs :
          GetWithConfigCall(name, [Host |-> host, ClientID |-> cid])
    \/ \E host \in ProbeHosts : \E resp \in Network(host) : DetectGiteaAndForgejo(host, resp)

-----------------------------------------------------------------------------
(* The commands set-token and login, over the token store *)

CmdHosts == {"github.com", "git.example.com"}

\* args[1:]: no token argument, or one
TokenArgs == {<<>>, <<" tok-a ">>, <<" ">>}

\* --provider
ProviderFlags == {"", "gitlab", "nonexistent"}

\* nothing left to read on standard input
NoLine == ""

\* lines typed at the confirmation prompt
Answers == {"y\n", "Y\n", "n\n", "y es\n", " \n"}

\* lines typed at the token prompt
TokenLines == {" tok-a \n", " \n"}

\* fmt.Scanln(&response) on the next line of input: response is the first
\* word, stored even when more words follow and Scanln returns "expected
\* newline"; Scanln then stops one character into the second word and
\* leaves the remainder of the line unread
Scanln(line) ==
    CASE line = "y\n" -> [response |-> "y", rest |-> <<>>]
      [] line = "Y\n" -> [response |-> "Y", rest |-> <<>>]
      [] line = "n\n" -> [response |-> "n", rest |-> <<>>]
      [] line = "y es\n" -> [response |-> "y", rest |-> <<"s\n">>]
      [] OTHER -> [response |-> "", rest |-> <<>>]

\* what a ValidateToken of any Provider can return
ValidationResults ==
    {Validation(status, err) :
        status \in {ValidationStatusValid, ValidationStatusInvalid, ValidationStatusUnknown},
        err \in {NilError, Error("Get: connection refused", "transport")}}

NoValidation == Validation("", NilError)

\* what provider.Detect can return: a provider by its name, or an error
Detected(name, err) == [name |-> name, err |-> err]

NoDetection == Detected("", NilError)

DetectResults ==
    {Detected("gitlab", NilError), Detected("unknown", NilError),
     Detected("", Error("detection failed", ""))}

\* what prov.Authenticate can return
AuthResults ==
    {[token |-> "tok-b", err |-> NilError],
     [token |-> "", err |-> Error("failed to read token: failed to read input: EOF", "EOF")]}

NoStore == [h \in CmdHosts |-> ""]

NoCmd ==
    [name |-> "", pc |-> "done", host |-> "", force |-> FALSE, args |-> <<>>, flag |-> "",
     dryRun |-> FALSE, before |-> NoStore, answer |-> NoLine, rest |-> <<>>, read |-> NoLine,
     did |-> <<>>, token |-> "", validated |-> "", validatedHost |-> "",
     detected |-> NoDetection, validation |-> NoValidation, err |-> NilError]

\* cfg.ListTokens()
CmdListTokens == {h \in CmdHosts : store[h] # ""}

\* set-token <host> [token] --force --provider: up to the confirmation prompt
SetTokenStart(host, args, force, flag) ==
    /\ cmd.pc = "done"
    /\ LET tokenExists == host \in CmdListTokens
           existingToken == store[host]
           prompt == tokenExists /\ ~force /\ existingToken # ""
       IN cmd' = [NoCmd EXCEPT !.name = "set-token",
                               !.pc = IF prompt THEN "confirm" ELSE "token",
                               !.host = host, !.force = force, !.args = args, !.flag = flag,
                               !.before = store,
                               !.did = IF prompt THEN <<"prompt">> ELSE <<>>]
    /\ UNCHANGED store
    /\ UNCHANGED exceptCmdVars

\* "Replace it? (y/N): " is answered with line, or the input has ended
SetTokenConfirm(line) ==
    /\ cmd.name = "set-token"
    /\ cmd.pc = "confirm"
    /\ LET response == Scanln(line).response IN
       cmd' = [cmd EXCEPT !.answer = line, !.rest = Scanln(line).rest,
                          !.pc = IF response # "y" /\ response # "Y" THEN "done" ELSE "token"]
    /\ UNCHANGED store
    /\ UNCHANGED exceptCmdVars

\* the token is taken from args or read from the input, then trimmed; line
\* is what the input gives when nothing of an earlier line is left on it
SetTokenReadToken(line) ==
    /\ cmd.name = "set-token"
    /\ cmd.pc = "token"
    /\ (cmd.args # <<>> \/ cmd.rest # <<>>) => line = NoLine
    /\ LET read == IF cmd.rest # <<>> THEN Head(cmd.rest) ELSE line
           token == IF cmd.args # <<>> THEN TrimSpace(cmd.args[1])
                    ELSE IF read = NoLine THEN ""
                    ELSE TrimSpace(read)
           did == IF cmd.args # <<>> THEN cmd.did ELSE Append(cmd.did, "readToken")
       IN IF cmd.args = <<>> /\ read = NoLine
          THEN cmd' = [cmd EXCEPT !.did = did, !.rest = <<>>, !.pc = "done",
                                  !.err = Wrap("failed to read token", Error("EOF", "EOF"))]
          ELSE IF token = ""
          THEN cmd' = [cmd EXCEPT !.did = did, !.rest = <<>>, !.read = read, !.pc = "done",
                                  !.err = Error("token cannot be empty", "")]
          ELSE cmd' = [cmd EXCEPT !.did = did, !.rest = <<>>, !.read = read, !.pc = "provider",
                                  !.token = token]
    /\ UNCHANGED store
    /\ UNCHANGED exceptCmdVars

\* mutant of SetTokenAccepts: a status is enough, whatever it is
SetTokenAccepts_AnyStatus(v) == v.err = NilError

\* with --provider, the validation that lets the token be stored
SetTokenAccepts(v) == v.err = NilError /\ v.status = ValidationStatusValid

\* mutant of SetTokenValidates: the Unknown provider is asked as well
SetTokenValidates_Unknown(d) == d.err = NilError

\* without --provider, whether the detected provider is asked to validate
SetTokenValidates(d) == d.err = NilError /\ d.name # "unknown"

\* the provider is determined, the token validated and stored; d is what
\* provider.Detect returns and v what ValidateToken returns
SetTokenProvider(d, v) ==
    /\ cmd.name = "set-token"
    /\ cmd.pc = "provider"
    /\ IF cmd.flag # ""
       THEN LET p == Get(RegistryMap(BuiltinRegistry), cmd.flag) IN
            /\ d = NoDetection
            /\ p.ok <=> v # NoValidation
            /\ IF ~p.ok
               THEN /\ cmd' = [cmd EXCEPT !.pc = "done", !.did = cmd.did \o <<"Get">>,
                                          !.err = Error("unknown provider: " \o cmd.flag, "")]
                    /\ UNCHANGED store
               ELSE IF v.err # NilError
               THEN /\ cmd' = [cmd EXCEPT !.pc = "done", !.validation = v,
                                          !.validated = cmd.token,
                                          !.validatedHost = Host(p.provider),
                                          !.did = cmd.did \o <<"Get", "ValidateToken">>,
                                          !.err = Wrap("token validation failed", v.err)]
                    /\ UNCHANGED store
               ELSE IF ~SetTokenAccepts(v)
               THEN /\ cmd' = [cmd EXCEPT !.pc = "done", !.validation = v,
                                          !.validated = cmd.token,
                                          !.validatedHost = Host(p.provider),
                                          !.did = cmd.did \o <<"Get", "ValidateToken">>,
                                          !.err = Error("token is not valid", "")]
                    /\ UNCHANGED store
               ELSE /\ cmd' = [cmd EXCEPT !.pc = "done", !.validation = v,
                                          !.validated = cmd.token,
                                          !.validatedHost = Host(p.provider),
                                          !.did = cmd.did \o <<"Get", "ValidateToken", "SetToken">>]
                    /\ store' = [store EXCEPT ![cmd.host] = cmd.token]
       ELSE /\ d # NoDetection
            /\ SetTokenValidates(d) <=> v # NoValidation
            /\ cmd' = [cmd EXCEPT !.pc = "done", !.detected = d, !.validation = v,
                                  !.validated = IF SetTokenValidates(d) THEN cmd.token ELSE "",
                                  !.validatedHost = IF SetTokenValidates(d) THEN cmd.host ELSE "",
                                  !.did = cmd.did \o <<"Detect">>
                                          \o (IF SetTokenValidates(d) THEN <<"ValidateToken">> ELSE <<>>)
                                          \o (IF SetTokenValidates(d)
                                                 /\ (v.err # NilError \/ v.status # ValidationStatusValid)
                                              THEN <<"warn">> ELSE <<>>)
                                          \o <<"SetToken">>]
            /\ store' = [store EXCEPT ![cmd.host] = cmd.token]
    /\ UNCHANGED exceptCmdVars

\* login: the provider and host are resolved, --dry-run ends the command,
\* and an existing token leads to the confirmation prompt
runLogin(host, resolved, force, dryRun) ==
    /\ cmd.pc = "done"
    /\ LET existingToken == store[host]
           prompt == existingToken # "" /\ ~force
           login == [NoCmd EXCEPT !.name = "login", !.host = host, !.force = force,
                                  !.dryRun = dryRun, !.before = store, !.did = <<"resolve">>]
       IN IF ~resolved
          THEN cmd' = [login EXCEPT !.err = Error("failed to detect provider", "")]
          ELSE IF dryRun THEN cmd' = login
          ELSE IF prompt THEN cmd' = [login EXCEPT !.pc = "confirm", !.did = <<"resolve", "prompt">>]
          ELSE cmd' = [login EXCEPT !.pc = "authenticate"]
    /\ UNCHANGED store
    /\ UNCHANGED exceptCmdVars

\* "Do you want to replace it? [y/N] " is answered with line
LoginConfirm(line) ==
    /\ cmd.name = "login"
    /\ cmd.pc = "confirm"
    /\ LET response == Scanln(line).response IN
       cmd' = [cmd EXCEPT !.answer = line, !.rest = Scanln(line).rest,
                          !.pc = IF response # "y" /\ response # "Y" THEN "done"
                                 ELSE "authenticate"]
    /\ UNCHANGED store
    /\ UNCHANGED exceptCmdVars

\* prov.Authenticate(ctx) returns a
LoginAuthenticate(a) ==
    /\ cmd.name = "login"
    /\ cmd.pc = "authenticate"
    /\ IF a.err # NilError
       THEN cmd' = [cmd EXCEPT !.pc = "done", !.did = Append(cmd.did, "Authenticate"),
                               !.err = Wrap("authentication failed", a.err)]
       ELSE cmd' = [cmd EXCEPT !.pc = "validate", !.did = Append(cmd.did, "Authenticate"),
                               !.token = a.token]
    /\ UNCHANGED store
    /\ UNCHANGED exceptCmdVars

\* mutant of LoginRejects: an invalid token is let through
LoginRejects_NotInvalid(v) == FALSE

\* login's second check of the validation: the token is refused
LoginRejects(v) == v.status = ValidationStatusInvalid

\* prov.ValidateToken(ctx, token) returns v; the token is saved unless it
\* is invalid
LoginValidate(v) ==
    /\ cmd.name = "login"
    /\ cmd.pc = "validate"
    /\ v # NoValidation
    /\ IF v.err # NilError /\ v.status # ValidationStatusUnknown
       THEN /\ cmd' = [cmd EXCEPT !.pc = "done", !.validation = v, !.validated = cmd.token,
                                  !.did = Append(cmd.did, "ValidateToken"),
                                  !.err = Wrap("token validation failed", v.err)]
            /\ UNCHANGED store
       ELSE IF LoginRejects(v)
       THEN /\ cmd' = [cmd EXCEPT !.pc = "done", !.validation = v, !.validated = cmd.token,
                                  !.did = Append(cmd.did, "ValidateToken"),
                                  !.err = Error("token is invalid", "")]
            /\ UNCHANGED store
       ELSE /\ cmd' = [cmd EXCEPT !.pc = "done", !.validation = v, !.validated = cmd.token,
                                  !.did = cmd.did \o <<"ValidateToken">>
                                          \o (IF v.status = ValidationStatusUnknown
                                              THEN <<"warn">> ELSE <<>>)
                                          \o <<"SetToken">>]
            /\ store' = [store EXCEPT ![cmd.host] = cmd.token]
    /\ UNCHANGED exceptCmdVars

CmdInit ==
    /\ store = [h \in CmdHosts |-> IF h = "git.example.com" THEN "old-token-123" ELSE ""]
    /\ cmd = NoCmd

CmdNext ==
    \/ \E host \in CmdHosts : \E args \in TokenArgs : \E force \in BOOLEAN :
          \E flag \in ProviderFlags : SetTokenStart(host, args, force, flag)
    \/ \E line \in Answers \cup {NoLine} : SetTokenConfirm(line)
    \/ \E line \in TokenLines \cup {NoLine} : SetTokenReadToken(line)
    \/ \E d \in DetectResults \cup {NoDetection} : \E v \in ValidationResults \cup {NoValidation} :
          SetTokenProvider(d, v)
    \/ \E host \in CmdHosts : \E resolved \in BOOLEAN : \E force \in BOOLEAN :
          \E dryRun \in BOOLEAN : runLogin(host, resolved, force, dryRun)
    \/ \E line \in Answers \cup {NoLine} : LoginConfirm(line)
    \/ \E a \in AuthResults : LoginAuthenticate(a)
    \/ \E v \in ValidationResults : LoginValidate(v)

-----------------------------------------------------------------------------
(* The token store of internal/nixconf: nix.conf, access-tokens.conf and the *)
(* backups, under SetToken and RemoveToken                                   *)

\* sort.Strings of the hosts of the model
SortedHosts == <<"github.com", "gitlab.com">>

StoreHosts == {"github.com", "gitlab.com"}

StoreTokens == {"old_token", "new_token"}

\* a file: whether it exists, and its lines
File(lines) == [exists |-> TRUE, lines |-> lines]

NoFile == [exists |-> FALSE, lines |-> <<>>]

\* the lines of a config file. The value of an access-tokens line is its
\* text, a sequence of host=token pairs
OtherLine == [kind |-> "other", value |-> <<>>]

CommentLine == [kind |-> "comment", value |-> <<>>]

IncludeLine == [kind |-> "include", value |-> <<>>]

TokensLine(value) == [kind |-> "tokens", value |-> value]

\* "include extra.conf", an include of the user's own, and the one setting
\* that file holds
IncludeExtraLine == [kind |-> "includeExtra", value |-> <<>>]

ExtraLine == [kind |-> "extra", value |-> <<>>]

ExtraConf == [exists |-> TRUE, lines |-> <<ExtraLine>>]

\* map[string]string over the hosts of the model: "" for a missing key
NoTokens == [h \in StoreHosts |-> ""]

RECURSIVE ParsePairs(_, _)
\* tokens[host] = token for each pair in turn
ParsePairs(pairs, tokens) ==
    IF pairs = <<>> THEN tokens
    ELSE ParsePairs(Tail(pairs), [tokens EXCEPT ![Head(pairs)[1]] = Head(pairs)[2]])

\* ParseAccessTokens(value)
ParseAccessTokens(value) ==
    IF \E i \in 1..Len(value) : value[i][1] = "" \/ value[i][2] = ""
    THEN [err |-> "invalid token format", tokens |-> NoTokens]
    ELSE [err |-> "", tokens |-> ParsePairs(value, NoTokens)]

\* FormatAccessTokens(tokens): the pairs in the order of the sorted hosts
FormatAccessTokens(tokens) ==
    LET Has(h) == tokens[h] # ""
        hosts == SelectSeq(SortedHosts, Has)
    IN [i \in 1..Len(hosts) |-> <<hosts[i], tokens[hosts[i]]>>]

Sourced(line, src) == [line |-> line, src |-> src]

NoConfigParsed ==
    [err |-> "", Lines |-> <<>>, Includes |-> FALSE, visited |-> FALSE, visitedExtra |-> FALSE]

RECURSIVE parseFileRecursive(_, _, _, _)
\* parseFileRecursive on nix.conf from line i on. An include line has the
\* token file parsed first, its lines coming before the include line; the
\* file is marked visited before it is opened, a second include of it is a
\* circular include, and "!include" passes over a missing file; extra.conf
\* is parsed likewise
parseFileRecursive(lines, tf, i, config) ==
    IF i > Len(lines) THEN config
    ELSE IF lines[i].kind = "includeExtra"
    THEN IF config.visitedExtra
         THEN [config EXCEPT !.err = "circular include detected"]
         ELSE parseFileRecursive(lines, tf, i + 1,
                  [config EXCEPT !.visitedExtra = TRUE,
                                 !.Lines = config.Lines
                                     \o [k \in 1..Len(ExtraConf.lines) |-> Sourced(ExtraConf.lines[k], "extra.conf")]
                                     \o <<Sourced(lines[i], "nix.conf")>>])
    ELSE IF lines[i].kind = "include"
    THEN IF config.visited
         THEN [config EXCEPT !.err = "circular include detected", !.Includes = TRUE]
         ELSE parseFileRecursive(lines, tf, i + 1,
                  [config EXCEPT !.Includes = TRUE, !.visited = TRUE,
                                 !.Lines = config.Lines
                                     \o [k \in 1..Len(tf.lines) |-> Sourced(tf.lines[k], "access-tokens.conf")]
                                     \o <<Sourced(lines[i], "nix.conf")>>])
    ELSE parseFileRecursive(lines, tf, i + 1,
             [config EXCEPT !.Lines = Append(config.Lines, Sourced(lines[i], "nix.conf"))])

\* Parser.ParseFile(mainPath)
ParseFile(main, tf) ==
    IF ~main.exists THEN [NoConfigParsed EXCEPT !.err = "not exist"]
    ELSE parseFileRecursive(main.lines, tf, 1, NoConfigParsed)

SettingIdx(config) == {i \in 1..Len(config.Lines) : config.Lines[i].line.kind = "tokens"}

LastIdx(idx) == CHOOSE i \in idx : \A j \in idx : j <= i

\* config.Settings["access-tokens"]: the value of the last such line
Setting(config) ==
    IF SettingIdx(config) = {} THEN [exists |-> FALSE, value |-> <<>>]
    ELSE [exists |-> TRUE, value |-> config.Lines[LastIdx(SettingIdx(config))].line.value]

\* the access-tokens map of a parsed configuration
ConfigTokens(config) ==
    IF Setting(config).exists THEN ParseAccessTokens(Setting(config).value)
    ELSE [err |-> "", tokens |-> NoTokens]

\* GetToken(host) on the files main and tf
GetToken(main, tf, host) ==
    LET config == ParseFile(main, tf) IN
    IF config.err = "not exist" THEN [token |-> "", err |-> ""]
    ELSE IF config.err # "" THEN [token |-> "", err |-> config.err]
    ELSE IF ConfigTokens(config).err # "" THEN [token |-> "", err |-> ConfigTokens(config).err]
    ELSE [token |-> ConfigTokens(config).tokens[host], err |-> ""]

\* ListTokens() on the files main and tf
ListTokens(main, tf) ==
    LET config == ParseFile(main, tf)
        Has(h) == ConfigTokens(config).tokens[h] # ""
    IN IF config.err = "not exist" THEN [hosts |-> <<>>, err |-> ""]
       ELSE IF config.err # "" THEN [hosts |-> <<>>, err |-> config.err]
       ELSE IF ConfigTokens(config).err # "" THEN [hosts |-> <<>>, err |-> ConfigTokens(config).err]
       ELSE [hosts |-> SelectSeq(SortedHosts, Has), err |-> ""]

\* config.FindSettingLine("access-tokens") names a line of nix.conf
tokensInMainFile(config) ==
    /\ SettingIdx(config) # {}
    /\ config.Lines[LastIdx(SettingIdx(config))].src = "nix.conf"

RECURSIVE replaceLines(_, _)
\* the loop of replaceTokensWithInclude over config.Lines: a tokens line of
\* nix.conf becomes an include, every other line is kept
replaceLines(sourced, i) ==
    IF i > Len(sourced) THEN <<>>
    ELSE <<IF sourced[i].line.kind = "tokens" /\ sourced[i].src = "nix.conf"
           THEN IncludeLine ELSE sourced[i].line>> \o replaceLines(sourced, i + 1)

replaceTokensWithInclude(config) ==
    LET tokenLineFound ==
            \E i \in 1..Len(config.Lines) :
                config.Lines[i].line.kind = "tokens" /\ config.Lines[i].src = "nix.conf"
    IN IF tokenLineFound THEN replaceLines(config.Lines, 1)
       ELSE Append(replaceLines(config.Lines, 1), IncludeLine)

\* something done to a file: pre is the file before it, post the file after
Effect(act, file, pre, post) == [act |-> act, file |-> file, pre |-> pre, post |-> post]

\* mutant of existingTokens: only the new token is kept
existingTokens_OnlyNew(tokens, host, token) == [NoTokens EXCEPT ![host] = token]

\* existingTokens[host] = token
existingTokens(tokens, host, token) == [tokens EXCEPT ![host] = token]

\* writeTokenFile(path, tokens)
writeTokenFile(tokens) ==
    IF FormatAccessTokens(tokens) = <<>> THEN File(<<>>)
    ELSE File(<<TokensLine(FormatAccessTokens(tokens))>>)

StoreOp(op, host, token, effects, err) ==
    [op |-> op, host |-> host, token |-> token, main |-> mainFile, tf |-> tokenFile,
     effects |-> effects, err |-> err]

NoStoreOp ==
    [op |-> "", host |-> "", token |-> "", main |-> NoFile, tf |-> NoFile,
     effects |-> <<>>, err |-> ""]

\* the configuration the first call finds: nix.conf as its user or an
\* earlier tool left it, and possibly a token file
FoundMainFiles ==
    LET values == {<<<<"github.com", "old_token">>>>,
                   <<<<"gitlab.com", "old_token">>, <<"github.com", "old_token">>>>}
        tails == {<<>>, <<IncludeLine>>}
                 \cup {<<TokensLine(v)>> : v \in values}
                 \cup {<<TokensLine(v), IncludeLine>> : v \in values}
                 \cup {<<IncludeLine, TokensLine(v)>> : v \in values}
    IN {File(t) : t \in tails} \cup {File(<<OtherLine>> \o t) : t \in tails}
       \cup {File(<<IncludeExtraLine>>), File(<<IncludeExtraLine, IncludeLine>>),
             File(<<IncludeExtraLine, TokensLine(<<<<"github.com", "old_token">>>>)>>)}

FoundTokenFiles ==
    {NoFile, File(<<TokensLine(<<<<"gitlab.com", "old_token">>>>)>>)}

FoundConfig(main, tf) ==
    /\ sLast = NoStoreOp
    /\ ~mainFile.exists
    /\ ~tokenFile.exists
    /\ mainFile' = main
    /\ tokenFile' = tf
    /\ sLast' = StoreOp("found", "", "", <<>>, "")
    /\ UNCHANGED backups
    /\ UNCHANGED exceptStoreVars

SetToken(host, token) ==
    LET config == ParseFile(mainFile, tokenFile)
        mainFileExists == config.err = ""
        parsed == ConfigTokens(config)
        tokens == existingTokens(parsed.tokens, host, token)
        written == writeTokenFile(tokens)
        wroteTokens == Effect("write", "access-tokens.conf", tokenFile, written)
    IN IF config.err \notin {"", "not exist"}
       THEN /\ sLast' = StoreOp("SetToken", host, token, <<>>, "failed to parse config: " \o config.err)
            /\ UNCHANGED <<mainFile, tokenFile, backups>>
       ELSE IF parsed.err # ""
       THEN /\ sLast' = StoreOp("SetToken", host, token, <<>>,
                                "failed to parse existing tokens: " \o parsed.err)
            /\ UNCHANGED <<mainFile, tokenFile, backups>>
       ELSE /\ tokenFile' = written
            /\ IF ~mainFileExists
               THEN /\ mainFile' = File(<<CommentLine, IncludeLine>>)
                    /\ UNCHANGED backups
                    /\ sLast' = StoreOp("SetToken", host, token,
                                        <<wroteTokens, Effect("write", "nix.conf", mainFile, mainFile')>>, "")
               ELSE IF tokensInMainFile(config) \/ ~config.Includes
               THEN /\ backups' = backups \cup {mainFile}
                    /\ mainFile' = File(replaceTokensWithInclude(config))
                    /\ sLast' = StoreOp("SetToken", host, token,
                                        <<wroteTokens,
                                          Effect("backup", "nix.conf", mainFile, mainFile),
                                          Effect("write", "nix.conf", mainFile, mainFile')>>, "")
               ELSE /\ UNCHANGED <<mainFile, backups>>
                    /\ sLast' = StoreOp("SetToken", host, token, <<wroteTokens>>, "")

SetTokenCall(host, token) ==
    /\ SetToken(host, token)
    /\ UNCHANGED exceptStoreVars

RemoveToken(host) ==
    LET config == ParseFile(mainFile, tokenFile)
        parsed == ConfigTokens(config)
        tokens == [parsed.tokens EXCEPT ![host] = ""]
        Fails(err) == /\ sLast' = StoreOp("RemoveToken", host, "", <<>>, err)
                      /\ UNCHANGED <<mainFile, tokenFile, backups>>
    IN IF config.err = "not exist" THEN Fails("no configuration file found")
       ELSE IF config.err # "" THEN Fails(config.err)
       ELSE IF ~Setting(config).exists THEN Fails("no tokens configured")
       ELSE IF parsed.err # "" THEN Fails(parsed.err)
       ELSE IF parsed.tokens[host] = "" THEN Fails("no token found for " \o host)
       ELSE /\ tokenFile' = IF tokens = NoTokens THEN NoFile ELSE writeTokenFile(tokens)
            /\ sLast' = StoreOp("RemoveToken", host, "",
                                <<Effect(IF tokens = NoTokens THEN "remove" ELSE "write",
                                         "access-tokens.conf", tokenFile, tokenFile')>>, "")
            /\ UNCHANGED <<mainFile, backups>>

RemoveTokenCall(host) ==
    /\ RemoveToken(host)
    /\ UNCHANGED exceptStoreVars

StoreInit ==
    /\ mainFile = NoFile
    /\ tokenFile = NoFile
    /\ backups = {}
    /\ sLast = NoStoreOp

StoreNext ==
    \/ \E main \in FoundMainFiles : \E tf \in FoundTokenFiles : FoundConfig(main, tf)
    \/ \E host \in StoreHosts : \E token \in StoreTokens : SetTokenCall(host, token)
    \/ \E host \in StoreHosts : RemoveTokenCall(host)

-----------------------------------------------------------------------------
(* login with a PAT provider: the context made by runLogin, and the prompts *)
(* of PersonalAccessTokenProvider.Authenticate under it                     *)

\* longest time, in seconds, followed at the prompts
MaxWait == 4

\* --timeout, in seconds
LoginTimeouts == {1, 2, 3}

NoLogin ==
    [pc |-> "idle", timeout |-> 0, clock |-> 0, token |-> "", reply |-> NoReply,
     status |-> "", token_out |-> "", err |-> NilError]

\* ctx.Err() of the context login made: its deadline has passed
Expired(l) == l.clock >= l.timeout

\* client.Do with a context that is done fails at once with the context's
\* error; otherwise the server's reply decides
PATValidateTokenCtx(expired, reply) ==
    IF expired
    THEN Validation(ValidationStatusInvalid,
                    Wrap("failed to validate token", Error("Get: context deadline exceeded", "deadline exceeded")))
    ELSE PATValidateToken(reply)

\* runLogin makes the context and calls prov.Authenticate(ctx), which prints
\* its instructions and waits for Enter
LoginPATStart(timeout) ==
    /\ lp.pc = "idle"
    /\ lp' = [NoLogin EXCEPT !.pc = "enter", !.timeout = timeout]
    /\ UNCHANGED exceptPatVars

\* a second passes while a prompt waits for the user
PromptWait ==
    /\ lp.pc \in {"enter", "token"}
    /\ lp.clock < MaxWait
    /\ lp' = [lp EXCEPT !.clock = @ + 1]
    /\ UNCHANGED exceptPatVars

\* the user presses Enter; the browser is opened and the token prompt waits
PressEnter ==
    /\ lp.pc = "enter"
    /\ lp' = [lp EXCEPT !.pc = "token"]
    /\ UNCHANGED exceptPatVars

\* the user enters a token, to which the server's current-user endpoint
\* would answer reply; Authenticate validates it with ctx and returns
EnterToken(token, reply) ==
    /\ lp.pc = "token"
    /\ LET v == PATValidateTokenCtx(Expired(lp), reply) IN
       lp' = [lp EXCEPT !.pc = "done", !.token = token, !.reply = reply, !.status = v.status,
                        !.token_out = IF PATAccepts(v.status) THEN token ELSE "",
                        !.err = IF PATAccepts(v.status) THEN NilError
                                ELSE IF v.err # NilError THEN Wrap("invalid token", v.err)
                                ELSE Error("invalid token", "")]
    /\ UNCHANGED exceptPatVars

\* login takes what Authenticate returned; the next run starts afresh
LoginPATReturn ==
    /\ lp.pc = "done"
    /\ lp' = NoLogin
    /\ UNCHANGED exceptPatVars

PatInit == lp = NoLogin

PatNext ==
    \/ \E timeout \in LoginTimeouts : LoginPATStart(timeout)
    \/ PromptWait
    \/ PressEnter
    \/ \E token \in OpTokens, reply \in UserReplies : EnterToken(token, reply)
    \/ LoginPATReturn

-----------------------------------------------------------------------------
(* Properties of Detect *)

CallIdx == 1..Len(dCalls)

\* C1: Detect never reports an error: whatever the probes answer, it returns
\* a provider (a matched one or the Unknown provider) and a nil error.
C1_DetectNeverErrors ==
    dpc = "done" =>
        /\ dResult.err = NoErr
        /\ dResult.provider # NilProvider
        /\ Name(dResult.provider) \in {"unknown", "github", "gitlab", "gitea", "forgejo"}

C1_Witness ==
    /\ dpc = "done"
    /\ \E i \in CallIdx : dCalls[i].resp.err
    /\ dResult.err = NoErr

C1_WitnessMatchedWithClientID ==
    /\ dpc = "done"
    /\ dClientID # ""
    /\ \E i \in CallIdx : dCalls[i].matched

\* C2: a probe that fails with a transport error ends detection: Detect
\* returns the Unknown provider bound to the requested host, and no detector
\* later in the order is invoked.
C2_TransportErrorStops ==
    \A i \in CallIdx :
        (dCalls[i].http /\ dCalls[i].resp.err) =>
            /\ i = Len(dCalls)
            /\ dpc = "done"
            /\ dResult = [provider |-> NewUnknownProvider(dHost), err |-> NoErr]
            /\ Name(dResult.provider) = "unknown"
            /\ Host(dResult.provider) = dHost

C2_Witness ==
    /\ dpc = "done"
    /\ Len(dCalls) = 2
    /\ dCalls[2].resp.err
    /\ Len(dOrder) > dIdx

\* the detector, among the registered ones, whose canonical-hostname
\* shortcut recognizes the host ("" when there is none)
ShortcutDetector(reg, host) ==
    LET h == ToLower(host) IN
    CASE h = "github.com" /\ "github" \in reg -> "github"
      [] h = "gitlab.com" /\ "gitlab" \in reg -> "gitlab"
      [] h \in {"gitea.com", "gitea.io"} /\ "gitea" \in reg -> "gitea"
      [] h = "codeberg.org" /\ "forgejo" \in reg -> "forgejo"
      [] OTHER -> ""

\* C3: for a host that a registered detector recognizes by its canonical
\* hostname, Detect returns that detector's provider and no detector issues
\* an HTTP request during the call.
C3_ShortcutNoHTTP ==
    (dpc = "done" /\ ShortcutDetector(registry, dHost) # "") =>
        /\ Name(dResult.provider) = ShortcutDetector(registry, dHost)
        /\ \A i \in CallIdx : ~dCalls[i].http

\* the reply carries the body marker the named detector looks for
HasMarker(name, resp) ==
    /\ resp.status = 200
    /\ resp.body.decodable
    /\ CASE name = "github" -> resp.body.hasCurrentUserURL
         [] name = "gitlab" -> resp.body.hasVersion
         [] name = "gitea" -> resp.body.version # "" /\ ~ContainsForgejo(ToLower(resp.body.version))
         [] name = "forgejo" -> ContainsForgejo(ToLower(resp.body.version))
         [] OTHER -> FALSE

NoDetectorClaims ==
    \A i \in CallIdx :
        dCalls[i].http /\ ~dCalls[i].resp.err /\ ~HasMarker(dCalls[i].name, dCalls[i].resp)

\* C4: when no registered detector claims the host (every probe is answered
\* with a non-200 status or without the body marker, or there is no detector
\* to ask), Detect returns the provider named "unknown".
C4_NoClaimUnknown ==
    (dpc = "done" /\ NoDetectorClaims) => Name(dResult.provider) = "unknown"

C4_Witness ==
    /\ dpc = "done"
    /\ NoDetectorClaims
    /\ Len(dCalls) = 4
    /\ dCalls[1].resp.status = 200
    /\ dCalls[2].resp.status = 404

C4_WitnessNoDetector ==
    /\ dpc = "done"
    /\ registry = {"test"}
    /\ dCalls = <<>>

\* C5: the provider Detect returns, matched or Unknown, with or without a
\* client ID, has Host() equal to the requested host.
C5_HostIsRequested ==
    dpc = "done" => Host(dResult.provider) = dHost

C5_Witness ==
    /\ dpc = "done"
    /\ dHost = "GitHub.com"
    /\ Name(dResult.provider) = "github"
    /\ dClientID = ""

C5_WitnessClientID ==
    /\ dpc = "done"
    /\ dHost = "Codeberg.ORG"
    /\ Name(dResult.provider) = "forgejo"
    /\ dClientID # ""

Rank(name) ==
    CASE name = "github" -> 1
      [] name = "gitlab" -> 2
      [] name = "gitea" -> 3
      [] name = "forgejo" -> 4
      [] OTHER -> 5

\* C6: detectors are invoked one at a time in detection order (GitHub,
\* GitLab, Gitea, Forgejo): each is invoked only after every registered
\* detector before it returned "no match", none is invoked after a match, and
\* the match is what Detect returns.
C6_FirstMatchInOrder ==
    /\ \A i \in CallIdx : \A j \in CallIdx : i < j => Rank(dCalls[i].name) < Rank(dCalls[j].name)
    /\ \A i \in CallIdx : i < Len(dCalls) => ~dCalls[i].matched /\ dCalls[i].err = NoErr
    /\ \A i \in CallIdx :
          \A n \in registry :
              (~DetectIsNil(n) /\ Rank(n) < Rank(dCalls[i].name)) =>
                  \E k \in 1..(i - 1) : dCalls[k].name = n
    /\ \A i \in CallIdx :
          dCalls[i].matched =>
              /\ dpc = "done"
              /\ Name(dResult.provider) = dCalls[i].name

C6_Witness ==
    /\ dpc = "done"
    /\ Len(dCalls) = 4
    /\ dCalls[4].matched
    /\ dCalls[3].http

\* Detect has returned a detector's match for a caller that gave a client ID
MatchedWithClientID ==
    /\ dpc = "done"
    /\ dClientID # ""
    /\ dCalls # <<>>
    /\ dCalls[Len(dCalls)].matched

\* the client ID a later Authenticate of p goes on with
AuthenticateClientID(p) ==
    CASE p.kind = "github" -> gitHubClientID(p)
      [] p.kind = "gitlab" -> gitLabClientID(p)
      [] OTHER -> ""

\* C20: when a detector matches and the caller gave a client ID, Detect
\* returns a provider of the matched family, bound to the requested host and
\* carrying the caller's client ID, which a later Authenticate then uses.
C20_ClientIDCarried ==
    MatchedWithClientID =>
        /\ Name(dResult.provider) = dCalls[Len(dCalls)].name
        /\ Host(dResult.provider) = dHost
        /\ dResult.provider.clientID = dClientID
        /\ AuthenticateClientID(dResult.provider) = dClientID

\* C20 as it holds: the provider is of the matched family and bound to the
\* requested host; for the OAuth families (GitHub, GitLab) it carries the
\* caller's client ID and a later Authenticate uses it; the PAT families
\* (Gitea, Forgejo) have no client ID and the caller's is dropped.
C20_OAuthClientIDCarried ==
    MatchedWithClientID =>
        /\ Name(dResult.provider) = dCalls[Len(dCalls)].name
        /\ Host(dResult.provider) = dHost
        /\ dResult.provider.kind \in {"github", "gitlab"} =>
               /\ dResult.provider.clientID = dClientID
               /\ AuthenticateClientID(dResult.provider) = dClientID
        /\ dResult.provider.kind \notin {"github", "gitlab"} =>
               /\ dResult.provider.kind = "pat"
               /\ dResult.provider.clientID = ""

C20_Witness ==
    /\ MatchedWithClientID
    /\ dCalls[Len(dCalls)].http
    /\ dResult.provider = GitLabProvider("git.example.com", "my-client-id")

C20_WitnessPAT ==
    /\ MatchedWithClientID
    /\ Name(dResult.provider) = "gitea"
    /\ dResult.provider.clientID = ""

-----------------------------------------------------------------------------
(* Properties of the device-flow polling loop *)

IsToken(r) == ~r.err /\ r.status = 200 /\ r.decodable /\ r.access_token # ""

IsCode(r, code) == ~r.err /\ r.status # 200 /\ r.decodable /\ r.error = code

IsOtherCode(r) ==
    /\ ~r.err /\ r.status # 200 /\ r.decodable
    /\ r.error \notin {"authorization_pending", "slow_down", "expired_token", "access_denied"}

\* the reply ends the polling
IsTerminal(r) == ~IsCode(r, "authorization_pending") /\ ~IsCode(r, "slow_down")

\* this step is the arrival of a token-endpoint reply
ReplyStep == Len(pReplies') = Len(pReplies) + 1

Failed(res, msg) == res.token = "" /\ res.err.msg = "failed to get access token: " \o msg

\* C7: each token-endpoint reply decides the next state: HTTP 200 with an
\* access token ends in success with that token, authorization_pending keeps
\* polling, expired_token ends with "device code expired", access_denied ends
\* with "access denied by user", any other error code ends with the
\* provider's error and description; and a reply that ends the polling is
\* never followed by another polling request.
C7_ReplyDecidesNext ==
    /\ [][ReplyStep =>
            LET r == pReplies'[Len(pReplies')] IN
            /\ IsToken(r) =>
                   apc' = "done" /\ aResult' = [token |-> r.access_token, err |-> NilError]
            /\ IsCode(r, "authorization_pending") => apc' = "select" /\ aResult' = aResult
            /\ IsCode(r, "expired_token") =>
                   apc' = "done" /\ Failed(aResult', "device code expired, please try again")
            /\ IsCode(r, "access_denied") =>
                   apc' = "done" /\ Failed(aResult', "access denied by user")
            /\ IsOtherCode(r) =>
                   apc' = "done" /\ Failed(aResult', r.error \o ": " \o r.error_description)
          ]_vars
    /\ [](\A i \in 1..Len(pReplies) :
             IsTerminal(pReplies[i]) => apc = "done" /\ Len(pReqs) = i)

C7_Witness ==
    /\ apc = "done"
    /\ Len(pReplies) = 3
    /\ IsCode(pReplies[1], "authorization_pending")
    /\ IsCode(pReplies[2], "slow_down")
    /\ IsCode(pReplies[3], "access_denied")
    /\ Failed(aResult, "access denied by user")

\* C8: every slow_down reply makes the wait between polls 5 seconds longer
\* than the interval in effect before that reply.
C8_SlowDownAddsFive ==
    [][(ReplyStep /\ IsCode(pReplies'[Len(pReplies')], "slow_down")) =>
           tPeriod' = tPeriod + SlowDownStep]_vars

AllPendingBefore(n) == \A i \in 1..(n - 1) : IsCode(pReplies[i], "authorization_pending")

\* C9: when the token endpoint answers authorization_pending n times and then
\* HTTP 200 with an access token, Authenticate returns exactly that token
\* after exactly n+1 polling requests.
C9_PendingThenToken ==
    (/\ apc = "done"
     /\ pReplies # <<>>
     /\ IsToken(pReplies[Len(pReplies)])
     /\ AllPendingBefore(Len(pReplies))) =>
        /\ aResult = [token |-> pReplies[Len(pReplies)].access_token, err |-> NilError]
        /\ Len(pReqs) = Len(pReplies)
        /\ netCalls = Len(pReplies) + 1

C9_Witness ==
    /\ apc = "done"
    /\ Len(pReplies) = 3
    /\ AllPendingBefore(3)
    /\ IsToken(pReplies[3])
    /\ aResult.token = "glpat-1"
    /\ Len(pReqs) = 3

\* C10: consecutive polling requests are never sent closer together than the
\* effective interval, max(5 s, advertised interval).
C10_MinimumSpacing ==
    \A i \in 1..(Len(pReqs) - 1) : pReqs[i + 1] - pReqs[i] >= interval

\* the texts an error of the device flow can have before the context's error
ErrPrefixes == {"", "Post: ", "failed to get access token: ",
                "failed to get access token: Post: ",
                "failed to request device code: Post: "}

\* strings.Contains(msg, "context deadline exceeded") on the messages of the model
ContainsDeadlineExceeded(msg) ==
    \E pre \in ErrPrefixes : msg = pre \o "context deadline exceeded"

\* runLogin appends its timeout advice to the error of Authenticate
loginReportsTimeout(res) ==
    res.err # NilError /\ ContainsDeadlineExceeded(res.err.msg)

\* the context became done after pollForToken had started
DoneWhilePolling == ctxDone # "" /\ tPeriod > 0

\* C11: when the caller's context is cancelled or its deadline passes while
\* the device flow is polling, no further polling request is sent and
\* Authenticate fails with a deadline-exceeded error, which login reports as
\* a timeout.
C11_DoneIsDeadlineExceeded ==
    /\ [][ctxDone # "" => pReqs' = pReqs /\ netCalls' = netCalls]_vars
    /\ []((apc = "done" /\ DoneWhilePolling) =>
             /\ aResult.token = ""
             /\ loginReportsTimeout(aResult))

\* the part of C11 about a deadline: it stops the polling and is reported as
\* a timeout, whether select sees ctx.Done() or client.Do fails on it
C11_DeadlineIsTimeout ==
    (apc = "done" /\ DoneWhilePolling /\ ctxDone = "deadline exceeded") =>
        /\ aResult.token = ""
        /\ loginReportsTimeout(aResult)

C11_WitnessCanceled ==
    /\ apc = "done"
    /\ DoneWhilePolling
    /\ ctxDone = "canceled"
    /\ pReqs # <<>>
    /\ aResult.err.msg = "failed to get access token: context canceled"

\* the host is the primary host of the provider's family
IsPrimaryHost(p) == Host(p) = DefaultHost(Name(p))

\* C12: Authenticate of an OAuth provider (GitHub, GitLab) that has no client
\* ID goes on with the built-in client ID when the host is the family's
\* primary host, and on any other host fails with a client-ID-required error
\* before any network request.
C12_ClientIDResolution ==
    (apc # "idle" /\ g.clientID = "") =>
        IF IsPrimaryHost(g)
        THEN /\ aClientID = (IF g.kind = "github" THEN DefaultGitHubClientID
                                                  ELSE DefaultGitLabClientID)
             /\ netCalls >= 1
        ELSE /\ apc = "done"
             /\ netCalls = 0
             /\ aResult.token = ""
             /\ aResult.err.msg \in
                    {"client ID required for GitLab self-hosted (use --client-id flag or GITLAB_CLIENT_ID env var)",
                     "client ID required for GitHub Enterprise (use --client-id flag)"}

C12_Witness ==
    /\ apc = "done"
    /\ g = GitLabProvider("gitlab.example.com", "")
    /\ netCalls = 0

C12_WitnessDefault ==
    /\ g = GitHubProvider("", "")
    /\ aClientID = DefaultGitHubClientID
    /\ aResult.token = "glpat-1"

-----------------------------------------------------------------------------
(* Properties of the provider operations *)

IsOK(reply) == ~reply.err /\ reply.status = 200

Requested(o) == \E i \in 1..Len(o.did) : o.did[i] = "request"

Prompted(o, prompt) == \E i \in 1..Len(o.did) : o.did[i] = prompt

\* C13: ValidateToken of a known provider (GitHub, GitLab, Gitea, Forgejo)
\* returns (Valid, nil) exactly when the current-user endpoint answers 200,
\* (Invalid, an error saying "invalid or expired") on 401, and (Invalid, an
\* error) on any other status and on a transport error; never Unknown, never
\* Invalid without an error, never Valid with one.
C13_ValidateTokenStatus ==
    (last.op = "ValidateToken" /\ prov.kind # "unknown") =>
        /\ (last.status = ValidationStatusValid /\ last.err = NilError) <=> IsOK(last.reply)
        /\ (~last.reply.err /\ last.reply.status = 401) =>
               /\ last.status = ValidationStatusInvalid
               /\ last.err.msg = "failed to validate token: token is invalid or expired"
        /\ ~IsOK(last.reply) =>
               last.status = ValidationStatusInvalid /\ last.err # NilError
        /\ last.status # ValidationStatusUnknown
        /\ last.status = ValidationStatusInvalid => last.err # NilError
        /\ last.status = ValidationStatusValid => last.err = NilError

C13_Witness ==
    /\ last.op = "ValidateToken"
    /\ prov.kind = "pat"
    /\ last.reply = UserReply(FALSE, 500, FALSE)
    /\ last.status = ValidationStatusInvalid
    /\ last.err.msg = "failed to validate token: unexpected status code: 500"

C13_WitnessValid ==
    /\ last.op = "ValidateToken"
    /\ prov.kind = "gitlab"
    /\ last.status = ValidationStatusValid

C15_UnknownNoNetwork ==
    prov.kind = "unknown" =>
        /\ ~Requested(last)
        /\ last.reply = NoReply
        /\ last.op = "ValidateToken" =>
               last.status = ValidationStatusUnknown /\ last.err = NilError
        /\ last.op = "GetUserInfo" => last.err # NilError /\ last.username = ""
        /\ last.op = "GetTokenScopes" => last.scopes = <<>> /\ last.err = NilError

\* the server would have accepted the token
C15_Witness ==
    /\ prov.kind = "unknown"
    /\ Host(prov) # ""
    /\ last.op = "ValidateToken"
    /\ IsOK(server[last.arg])
    /\ last.status = ValidationStatusUnknown

C15_WitnessAuthenticate ==
    /\ prov.kind = "unknown"
    /\ last.op = "Authenticate"
    /\ last.token = "tok-a"

\* the user's answer to the confirmation is a yes
Confirmed(in) == in # <<>> /\ TrimSpace(in[1]) \in {"y", "Y"}

\* C16: the Unknown provider's Authenticate returns a token only when the
\* user confirmed and then entered a non-empty token; when the user declines,
\* the token prompt is not reached and the call fails; when the token entered
\* is empty the call fails; a failed call returns no token.
C16_UnknownAuthenticate ==
    (prov.kind = "unknown" /\ last.op = "Authenticate") =>
        /\ last.token # "" =>
               /\ Confirmed(last.in)
               /\ Len(last.in) >= 2
               /\ last.token = TrimSpace(last.in[2])
               /\ last.err = NilError
        /\ ~Confirmed(last.in) =>
               /\ ~Prompted(last, "prompt: token")
               /\ last.err # NilError
        /\ (Confirmed(last.in) /\ Len(last.in) >= 2 /\ TrimSpace(last.in[2]) = "") =>
               last.err # NilError
        /\ last.err # NilError <=> last.token = ""

C16_Witness ==
    /\ prov.kind = "unknown"
    /\ last.op = "Authenticate"
    /\ last.in = <<"\n">>
    /\ last.err.msg = "login cancelled"

C16_WitnessEmptyToken ==
    /\ prov.kind = "unknown"
    /\ last.op = "Authenticate"
    /\ last.in = <<"Y\n", "\n">>
    /\ last.err.msg = "token cannot be empty"

\* C17: the PAT providers' Authenticate returns a token only when, in that
\* call, ValidateToken was called on that very token and returned Valid; on
\* any other validation outcome it returns an error and no token.
C17_PATReturnsValidated ==
    (prov.kind = "pat" /\ last.op = "Authenticate") =>
        /\ last.token # "" =>
               /\ last.validated = last.token
               /\ last.status = ValidationStatusValid
               /\ last.reply = Reply(prov, server, last.token)
               /\ IsOK(last.reply)
               /\ last.err = NilError
        /\ last.status # ValidationStatusValid => last.token = "" /\ last.err # NilError

C17_Witness ==
    /\ prov.kind = "pat"
    /\ last.op = "Authenticate"
    /\ last.validated = "tok-a"
    /\ last.status = ValidationStatusInvalid
    /\ last.err.msg = "invalid token: failed to validate token: token is invalid or expired"

C17_WitnessToken ==
    /\ prov.kind = "pat"
    /\ last.op = "Authenticate"
    /\ last.token = "tok-a"

\* nothing but empty lines, or nothing at all, on standard input
EmptyInput(in) == \A i \in 1..Len(in) : TrimSpace(in[i]) = ""

\* C18: the PAT providers' Authenticate, given an empty standard input, fails
\* with "token cannot be empty", returns no token and sends no validation
\* request.
C18_EmptyInputTokenEmpty ==
    (prov.kind = "pat" /\ last.op = "Authenticate" /\ Host(prov) # "" /\ EmptyInput(last.in)) =>
        /\ last.err.msg = "token cannot be empty"
        /\ last.token = ""
        /\ last.validated = ""
        /\ ~Requested(last)

\* the part of C18 that does not depend on how the input is empty
C18_EmptyInputFails ==
    (prov.kind = "pat" /\ last.op = "Authenticate" /\ Host(prov) # "" /\ EmptyInput(last.in)) =>
        /\ last.err.msg \in {"token cannot be empty",
                             "failed to read token: failed to read input: EOF"}
        /\ last.token = ""
        /\ last.validated = ""
        /\ ~Requested(last)

C18_WitnessEOF ==
    /\ prov.kind = "pat"
    /\ last.op = "Authenticate"
    /\ last.in = <<>>
    /\ last.did = <<"prompt: Press Enter", "browser", "prompt: token">>
    /\ last.err.msg = "failed to read token: failed to read input: EOF"

HostRequired(name) ==
    "--host flag is required for " \o name \o " provider (e.g., --host git.company.com)"

\* C19: the PAT providers' Authenticate, on a provider with neither a
\* configured host nor a default host, fails at once with the host-required
\* error: before any prompt, browser launch or request; with a host it never
\* fails that way.
C19_PATHostRequired ==
    (prov.kind = "pat" /\ last.op = "Authenticate") =>
        /\ Host(prov) = "" <=> last.err.msg = HostRequired(Name(prov))
        /\ Host(prov) = "" =>
               /\ last.did = <<>>
               /\ last.token = ""
               /\ last.validated = ""

C19_Witness ==
    /\ prov = PersonalAccessTokenProvider("forgejo", "", "")
    /\ last.op = "Authenticate"
    /\ last.in = <<" tok-a \n", " tok-a \n">>
    /\ last.err.msg = HostRequired("forgejo")

-----------------------------------------------------------------------------
(* Properties of the registry *)

LogIdx(name) == {i \in 1..Len(regLog) : regLog[i].name = name}

\* the registration made last under name
MostRecent(name) ==
    regLog[CHOOSE i \in LogIdx(name) : \A j \in LogIdx(name) : j <= i].reg

\* C21: Get(name) returns absent for a name that is not registered and
\* otherwise a provider built with the registration's default host;
\* GetWithConfig builds it with cfg.Host when that is non-empty and with the
\* default host only when it is empty; the registration used is the one made
\* last under the name; neither call sends an HTTP request.
C21_GetUsesMostRecent ==
    rLast.op \in {"Get", "GetWithConfig"} =>
        /\ rLast.requests = 0
        /\ LogIdx(rLast.name) = {} => ~rLast.ok /\ rLast.provider = NilProvider
        /\ LogIdx(rLast.name) # {} =>
              LET reg == MostRecent(rLast.name) IN
              /\ rLast.ok
              /\ rLast.op = "Get" =>
                    /\ rLast.provider = RegNew(reg.New, [Host |-> reg.DefaultHost, ClientID |-> ""])
                    /\ reg.DefaultHost # "" => Host(rLast.provider) = reg.DefaultHost
              /\ rLast.op = "GetWithConfig" /\ rLast.cfg.Host # "" =>
                    /\ rLast.provider = RegNew(reg.New, rLast.cfg)
                    /\ Host(rLast.provider) = rLast.cfg.Host
              /\ rLast.op = "GetWithConfig" /\ rLast.cfg.Host = "" =>
                    /\ rLast.provider =
                          RegNew(reg.New, [Host |-> reg.DefaultHost, ClientID |-> rLast.cfg.ClientID])
                    /\ reg.DefaultHost # "" => Host(rLast.provider) = reg.DefaultHost

\* Get("github") after a mock was registered in GitHub's place
C21_Witness ==
    /\ rLast.op = "Get"
    /\ rLast.name = "github"
    /\ Cardinality(LogIdx("github")) >= 2
    /\ rLast.provider = mockProvider("mock", "github.com", "")

C21_WitnessAbsent ==
    /\ rLast.op = "GetWithConfig"
    /\ rLast.name = "nonexistent"
    /\ ~rLast.ok

C21_WitnessConfigHost ==
    /\ rLast.op = "GetWithConfig"
    /\ rLast.name = "forgejo"
    /\ rLast.provider = PersonalAccessTokenProvider("forgejo", "", "git.example.com")

IsPreferred(name) == InSeq(name, preferredOrder)

\* an alias entry: its New builds a provider of another entry's family
IsAlias(name) == Name(RegNew(name, NoConfig)) # name

Count(x, s) == Cardinality({i \in 1..Len(s) : s[i] = x})

\* C22: whatever the registry holds, ListForDetection returns the registered
\* names among github, gitlab, gitea, forgejo in that order, then every other
\* registered name exactly once; no name is repeated and an alias entry
\* (codeberg) is left out.
C22_DetectionList ==
    dpc # "idle" =>
        /\ \A n \in Names :
              Count(n, dOrder) = IF n \in registry /\ ~IsAlias(n) THEN 1 ELSE 0
        /\ \A i \in 1..Len(dOrder) : \A j \in 1..Len(dOrder) :
              (i < j /\ IsPreferred(dOrder[j])) =>
                  /\ IsPreferred(dOrder[i])
                  /\ Rank(dOrder[i]) < Rank(dOrder[j])

C22_Witness ==
    /\ dpc # "idle"
    /\ registry = Names
    /\ Len(dOrder) = 6
    /\ dOrder[5] = "mock"

Claims(r) == r.err = NoErr /\ r.provider # NilProvider

NonCanonical(host) == ToLower(host) \notin {"codeberg.org", "gitea.com", "gitea.io"}

\* C23: for a host that is not a canonical one and whose /api/v1/version
\* answers 200 with a version V: if V contains "forgejo" in any letter case
\* the Forgejo detector claims the host and the Gitea detector does not; if V
\* is non-empty without it the Gitea detector claims it and the Forgejo
\* detector does not; the two never claim the same host on the same answer.
C23_GiteaXorForgejo ==
    rLast.op = "Detect" =>
        /\ ~(Claims(rLast.gitea) /\ Claims(rLast.forgejo))
        /\ (/\ NonCanonical(rLast.host)
            /\ ~rLast.resp.err
            /\ rLast.resp.status = 200
            /\ rLast.resp.body.decodable) =>
              LET V == rLast.resp.body.version IN
              /\ ContainsForgejo(ToLower(V)) =>
                    /\ Claims(rLast.forgejo)
                    /\ Name(rLast.forgejo.provider) = "forgejo"
                    /\ ~Claims(rLast.gitea)
              /\ (V # "" /\ ~ContainsForgejo(ToLower(V))) =>
                    /\ Claims(rLast.gitea)
                    /\ Name(rLast.gitea.provider) = "gitea"
                    /\ ~Claims(rLast.forgejo)

C23_Witness ==
    /\ rLast.op = "Detect"
    /\ rLast.host = "git.example.com"
    /\ rLast.resp.body.version = "1.19.3+Forgejo"
    /\ Claims(rLast.forgejo)
    /\ rLast.requests = 2

C23_WitnessGitea ==
    /\ rLast.op = "Detect"
    /\ rLast.host = "git.example.com"
    /\ rLast.resp.body.version = "1.21.0"
    /\ Claims(rLast.gitea)

-----------------------------------------------------------------------------
(* Properties of the commands *)

Did(e) == InSeq(e, cmd.did)

SetTokenDone == cmd.name = "set-token" /\ cmd.pc = "done"

\* the token store with the command's token put under its host
StoredToken == [cmd.before EXCEPT ![cmd.host] = cmd.token]

\* C24: set-token with --provider stores the token only if that provider's
\* ValidateToken returned Valid without an error; once the provider is looked
\* up, an unregistered name, a validation error or a status other than Valid
\* makes the command fail with the token store unchanged.
C24_ProviderValidationGates ==
    (SetTokenDone /\ cmd.flag # "") =>
        /\ Did("SetToken") =>
              /\ Did("ValidateToken")
              /\ cmd.validation = Validation(ValidationStatusValid, NilError)
              /\ store = StoredToken
        /\ ~Did("SetToken") => store = cmd.before
        /\ (/\ Did("Get")
            /\ \/ cmd.flag \notin BuiltinRegistry
               \/ cmd.validation.err # NilError
               \/ cmd.validation.status # ValidationStatusValid) =>
              /\ cmd.err # NilError
              /\ ~Did("SetToken")
              /\ store = cmd.before

\* an old token replaced after validation by the named provider
C24_Witness ==
    /\ SetTokenDone
    /\ cmd.flag = "gitlab"
    /\ cmd.before[cmd.host] = "old-token-123"
    /\ store[cmd.host] = "tok-a"

C24_WitnessInvalid ==
    /\ SetTokenDone
    /\ cmd.flag = "gitlab"
    /\ cmd.validation = Validation(ValidationStatusUnknown, NilError)
    /\ cmd.err = Error("token is not valid", "")

C24_WitnessUnregistered ==
    /\ SetTokenDone
    /\ cmd.err = Error("unknown provider: nonexistent", "")

\* the confirmation prompt was shown and not answered with y or Y
Cancelled == Did("prompt") /\ Scanln(cmd.answer).response \notin {"y", "Y"}

\* the token given, as an argument or on the input, is empty after trimming
EmptyToken ==
    /\ ~Cancelled
    /\ \/ cmd.args # <<>> /\ TrimSpace(cmd.args[1]) = ""
       \/ Did("readToken") /\ cmd.read # NoLine /\ TrimSpace(cmd.read) = ""

C25_WitnessUnknown ==
    /\ SetTokenDone
    /\ cmd.flag = ""
    /\ cmd.detected.name = "unknown"
    /\ cmd.before[cmd.host] = ""
    /\ store[cmd.host] = "tok-a"

C25_WitnessEmpty ==
    /\ SetTokenDone
    /\ cmd.read = " \n"
    /\ cmd.err = Error("token cannot be empty", "")

\* the command asked for confirmation and has ended
ConfirmationAsked == cmd.pc = "done" /\ Did("prompt")

\* C26: without --force, set-token and login replace an existing token only
\* if the user answers y or Y at the confirmation prompt; on any other answer
\* the command ends without error, without authenticating or validating, and
\* with the token store unchanged.
C26_ReplaceOnlyOnYes ==
    /\ (cmd.name # "" /\ cmd.pc = "done" /\ ~cmd.force /\ cmd.before[cmd.host] # ""
           /\ store # cmd.before) =>
          /\ Did("prompt")
          /\ cmd.answer \in {"y\n", "Y\n"}
    /\ (ConfirmationAsked /\ cmd.answer \notin {"y\n", "Y\n"}) =>
          /\ cmd.err = NilError
          /\ ~Did("Authenticate")
          /\ ~Did("ValidateToken")
          /\ store = cmd.before

\* what holds of the confirmation: the first word of the answer decides
C26_FirstWordDecides ==
    /\ (cmd.name # "" /\ cmd.pc = "done" /\ ~cmd.force /\ cmd.before[cmd.host] # ""
           /\ store # cmd.before) =>
          /\ Did("prompt")
          /\ Scanln(cmd.answer).response \in {"y", "Y"}
    /\ (ConfirmationAsked /\ Scanln(cmd.answer).response \notin {"y", "Y"}) =>
          /\ cmd.err = NilError
          /\ ~Did("Authenticate")
          /\ ~Did("ValidateToken")
          /\ store = cmd.before

\* the answer "y es" to set-token's prompt: the old token is replaced
C26_WitnessSecondWord ==
    /\ SetTokenDone
    /\ cmd.answer = "y es\n"
    /\ cmd.before[cmd.host] = "old-token-123"
    /\ store[cmd.host] = "tok-a"

\* the steps of did, in order, that are calls on the provider or the store
Calls(did) == SelectSeq(did, LAMBDA e : e \in {"Authenticate", "ValidateToken", "SetToken"})

LoginRunning == cmd.name = "login"

\* C31: login calls SetToken only after Authenticate succeeded and
\* ValidateToken, called with the token Authenticate returned, came back
\* Valid or Unknown, in that order, and it stores that token; when
\* Authenticate fails or the validation is Invalid, SetToken is not called
\* and the store is as it was.
C31_LoginStoresValidated ==
    LoginRunning =>
        /\ Did("SetToken") =>
              /\ Calls(cmd.did) = <<"Authenticate", "ValidateToken", "SetToken">>
              /\ cmd.token # ""
              /\ cmd.validated = cmd.token
              /\ cmd.validation.status \in {ValidationStatusValid, ValidationStatusUnknown}
              /\ store = [cmd.before EXCEPT ![cmd.host] = cmd.token]
        /\ ~Did("SetToken") => store = cmd.before
        /\ (Did("Authenticate") /\ cmd.token = "") => ~Did("SetToken")
        /\ cmd.validation.status = ValidationStatusInvalid => ~Did("SetToken")

\* a token validated as Unknown replaces the stored one
C31_Witness ==
    /\ LoginRunning
    /\ Did("SetToken")
    /\ cmd.validation.status = ValidationStatusUnknown
    /\ cmd.before[cmd.host] = "old-token-123"
    /\ store[cmd.host] = "tok-b"

\* a token found invalid leaves the store alone
C31_WitnessInvalid ==
    /\ LoginRunning
    /\ cmd.pc = "done"
    /\ cmd.validation.status = ValidationStatusInvalid
    /\ cmd.validated = "tok-b"
    /\ store = cmd.before

\* Authenticate failed
C31_WitnessAuthFailed ==
    /\ LoginRunning
    /\ cmd.pc = "done"
    /\ Did("Authenticate")
    /\ cmd.token = ""
    /\ cmd.err # NilError

\* set-token validated its token with the provider named by --provider
ValidatedWithFlag == cmd.name = "set-token" /\ cmd.flag # "" /\ Did("ValidateToken")

\* C37: when set-token is given --provider, the token is validated against
\* the host named on the command line, by a provider whose Host() is that
\* host, not against the provider's default host.
C37_ValidatedAtGivenHost ==
    ValidatedWithFlag => (cmd.validated = cmd.token /\ cmd.validatedHost = cmd.host)

\* what holds of --provider: the token is validated by the provider Get
\* makes, which is on the default host of its registration
C37_ValidatedAtDefaultHost ==
    ValidatedWithFlag => (cmd.validated = cmd.token /\ cmd.validatedHost = DefaultHost(cmd.flag))

\* set-token git.example.com --provider gitlab stored a token that gitlab.com
\* found valid
C37_WitnessOtherHost ==
    /\ ValidatedWithFlag
    /\ cmd.host = "git.example.com"
    /\ cmd.flag = "gitlab"
    /\ cmd.validatedHost = "gitlab.com"
    /\ Did("SetToken")
    /\ store["git.example.com"] = cmd.token

-----------------------------------------------------------------------------
(* Properties of the token store *)

HoldsLine(file, kind) == \E i \in 1..Len(file.lines) : file.lines[i].kind = kind

\* nix.conf holds an access-tokens line next to the include of the token file
Mixed(main) == HoldsLine(main, "tokens") /\ HoldsLine(main, "include")

SetTokenSucceeded == sLast.op = "SetToken" /\ sLast.err = ""

HostRank(h) == CHOOSE i \in 1..Len(SortedHosts) : SortedHosts[i] = h

\* ListTokens returns exactly the hosts that have a token, each once, sorted
ListsHostsWithToken ==
    LET l == ListTokens(mainFile, tokenFile) IN
    /\ l.err = ""
    /\ \A h \in StoreHosts : Count(h, l.hosts) = IF GetToken(mainFile, tokenFile, h).token # "" THEN 1 ELSE 0
    /\ \A i \in 1..Len(l.hosts) : \A k \in 1..Len(l.hosts) :
          i < k => HostRank(l.hosts[i]) < HostRank(l.hosts[k])

StoreNeverMixes ==
    [][(sLast'.op # "found" /\ ~Mixed(mainFile)) => ~Mixed(mainFile')]_vars

C27_SetThenGetAnyFile ==
    SetTokenSucceeded =>
        /\ GetToken(mainFile, tokenFile, sLast.host) = [token |-> sLast.token, err |-> ""]
        /\ \A h \in StoreHosts \ {sLast.host} :
              GetToken(mainFile, tokenFile, h) = GetToken(sLast.main, sLast.tf, h)
        /\ ListsHostsWithToken

\* RemoveToken was called for a host that had a token
HadToken ==
    /\ GetToken(sLast.main, sLast.tf, sLast.host).err = ""
    /\ GetToken(sLast.main, sLast.tf, sLast.host).token # ""

HadNoToken ==
    /\ GetToken(sLast.main, sLast.tf, sLast.host).err = ""
    /\ GetToken(sLast.main, sLast.tf, sLast.host).token = ""

\* C28: in every store state, tokens held old-style in nix.conf included,
\* RemoveToken(h) for a host that has a token returns nil, after which
\* GetToken(h) is empty and every other host's token is unchanged;
\* RemoveToken for a host with no token returns an error and changes nothing.
C28_RemoveTokenClears ==
    sLast.op = "RemoveToken" =>
        /\ HadToken =>
              /\ sLast.err = ""
              /\ GetToken(mainFile, tokenFile, sLast.host) = [token |-> "", err |-> ""]
              /\ \A h \in StoreHosts \ {sLast.host} :
                    GetToken(mainFile, tokenFile, h) = GetToken(sLast.main, sLast.tf, h)
        /\ HadNoToken =>
              /\ sLast.err # ""
              /\ mainFile = sLast.main
              /\ tokenFile = sLast.tf

\* what holds of RemoveToken: the same, when the tokens come from the token
\* file
C28_RemoveFromTokenFile ==
    (sLast.op = "RemoveToken" /\ ~HoldsLine(sLast.main, "tokens")) =>
        /\ HadToken =>
              /\ sLast.err = ""
              /\ GetToken(mainFile, tokenFile, sLast.host) = [token |-> "", err |-> ""]
              /\ \A h \in StoreHosts \ {sLast.host} :
                    GetToken(mainFile, tokenFile, h) = GetToken(sLast.main, sLast.tf, h)
        /\ HadNoToken =>
              /\ sLast.err # ""
              /\ mainFile = sLast.main
              /\ tokenFile = sLast.tf

\* RemoveToken on an old-style nix.conf: nil, and the token is still there
C28_WitnessOldStyle ==
    /\ sLast.op = "RemoveToken"
    /\ sLast.err = ""
    /\ sLast.main = File(<<OtherLine, TokensLine(<<<<"github.com", "old_token">>>>)>>)
    /\ GetToken(mainFile, tokenFile, sLast.host).token = "old_token"

\* the tokens of the access-tokens lines of nix.conf itself
MainTokens(main) == ConfigTokens(ParseFile(main, NoFile)).tokens

\* the tokens access-tokens.conf holds
FileTokens(tf) == ConfigTokens(ParseFile(File(tf.lines), NoFile)).tokens

Migrated ==
    /\ tokenFile.exists
    /\ FileTokens(tokenFile) = existingTokens(MainTokens(sLast.main), sLast.host, sLast.token)
    /\ ~HoldsLine(mainFile, "tokens")
    /\ HoldsLine(mainFile, "include")
    /\ GetToken(mainFile, tokenFile, sLast.host) = [token |-> sLast.token, err |-> ""]
    /\ \A h \in StoreHosts \ {sLast.host} :
          /\ GetToken(mainFile, tokenFile, h).err = ""
          /\ GetToken(mainFile, tokenFile, h).token = MainTokens(sLast.main)[h]

\* C29: when nix.conf holds an access-tokens line, the first SetToken moves
\* those tokens and the new one into access-tokens.conf, leaves no
\* access-tokens setting in nix.conf, makes nix.conf contain "!include
\* access-tokens.conf", and every token stored before is still retrieved with
\* its old value.
C29_Migration ==
    (SetTokenSucceeded /\ HoldsLine(sLast.main, "tokens")) => Migrated

\* what holds of the migration: the same, for a nix.conf without the include
C29_OldStyleMigration ==
    (SetTokenSucceeded /\ HoldsLine(sLast.main, "tokens") /\ ~HoldsLine(sLast.main, "include")) =>
        Migrated

\* SetToken on a nix.conf with the include and an access-tokens line: nil,
\* and nix.conf now includes the token file twice, which no longer parses
C29_WitnessTwoIncludes ==
    /\ SetTokenSucceeded
    /\ sLast.main = File(<<IncludeLine, TokensLine(<<<<"github.com", "old_token">>>>)>>)
    /\ mainFile = File(<<IncludeLine, IncludeLine>>)
    /\ GetToken(mainFile, tokenFile, "github.com").err = "circular include detected"

Modifies(e) == e.act \in {"write", "remove"} /\ e.pre.exists /\ e.post # e.pre

BackedUpBefore(i) ==
    \E k \in 1..(i - 1) :
        /\ sLast.effects[k].act = "backup"
        /\ sLast.effects[k].file = sLast.effects[i].file
        /\ sLast.effects[k].pre = sLast.effects[i].pre

\* C30: whenever SetToken or RemoveToken modifies a configuration file that
\* exists already, a backup holding that file's content as it was has been
\* written before the modification.
C30_BackupBeforeModify ==
    \A i \in 1..Len(sLast.effects) : Modifies(sLast.effects[i]) => BackedUpBefore(i)

\* what holds of the backups: nix.conf is backed up before it is modified
C30_MainBackedUp ==
    \A i \in 1..Len(sLast.effects) :
        (Modifies(sLast.effects[i]) /\ sLast.effects[i].file = "nix.conf") =>
            /\ BackedUpBefore(i)
            /\ sLast.effects[i].pre \in backups

\* SetToken rewrote an existing access-tokens.conf and made no backup
C30_WitnessTokenFile ==
    /\ SetTokenSucceeded
    /\ sLast.tf.exists
    /\ tokenFile # sLast.tf
    /\ backups = {}

-----------------------------------------------------------------------------
(* Further properties of the detectors *)

\* the field the named detector looks for is in the body
MarkerField(name, body) ==
    CASE name = "github" -> body.hasCurrentUserURL
      [] name = "gitlab" -> body.hasVersion
      [] OTHER -> body.version # ""

\* the i-th detector call of this Detect got an HTTP response
GotResponse(i) == dCalls[i].http /\ ~dCalls[i].resp.err

NotTheServer(i) ==
    \/ dCalls[i].resp.status # 200
    \/ ~dCalls[i].resp.body.decodable
    \/ ~MarkerField(dCalls[i].name, dCalls[i].resp.body)

\* C32: a detector that receives an HTTP response reports no error, and
\* reports no provider when the status is not 200, the body cannot be
\* decoded or the marker field is missing; a detector reports an error only
\* when its request could not be built or completed.
C32_NoMatchIsNotAnError ==
    \A i \in CallIdx :
        /\ GotResponse(i) => dCalls[i].err = NoErr
        /\ (GotResponse(i) /\ NotTheServer(i)) => ~dCalls[i].matched
        /\ dCalls[i].err # NoErr => (dCalls[i].http /\ dCalls[i].resp.err)

\* one Detect in which a 404, an undecodable 200 and a 200 without the marker
\* were answered to three detectors, none of which matched or failed
C32_Witness ==
    /\ Len(dCalls) >= 3
    /\ \A i \in CallIdx : GotResponse(i) /\ ~dCalls[i].matched /\ dCalls[i].err = NoErr
    /\ \E i \in CallIdx : dCalls[i].resp.status = 404
    /\ \E i \in CallIdx : dCalls[i].resp.status = 200 /\ ~dCalls[i].resp.body.decodable
    /\ \E i \in CallIdx :
          /\ dCalls[i].resp.status = 200
          /\ dCalls[i].resp.body.decodable
          /\ ~MarkerField(dCalls[i].name, dCalls[i].resp.body)

\* a probe that could not be completed is the detector's error
C32_WitnessTransport ==
    \E i \in CallIdx : dCalls[i].http /\ dCalls[i].resp.err /\ dCalls[i].err # NoErr

\* the lines of nix.conf with each access-tokens line replaced by the
\* include of the token file
OwnLinesReplaced(lines) ==
    [i \in 1..Len(lines) |-> IF lines[i].kind = "tokens" THEN IncludeLine ELSE lines[i]]

\* a successful SetToken changed a nix.conf that existed
MainRewritten == SetTokenSucceeded /\ sLast.main.exists /\ mainFile # sLast.main

\* C38: SetToken changes nix.conf only by replacing its access-tokens line
\* with, or appending, one "!include access-tokens.conf" line: every other
\* line is kept as it was and in order, no line of an included file is
\* written into nix.conf, and the file written parses again without error.
C38_MainKeptVerbatim ==
    MainRewritten =>
        /\ mainFile.lines = IF HoldsLine(sLast.main, "tokens")
                            THEN OwnLinesReplaced(sLast.main.lines)
                            ELSE Append(sLast.main.lines, IncludeLine)
        /\ ~HoldsLine(mainFile, "extra")
        /\ ParseFile(mainFile, tokenFile).err = ""

\* what holds of the rewriting: the same, for a nix.conf without includes
C38_KeptWithoutIncludes ==
    (MainRewritten /\ ~HoldsLine(sLast.main, "include") /\ ~HoldsLine(sLast.main, "includeExtra")) =>
        /\ mainFile.lines = IF HoldsLine(sLast.main, "tokens")
                            THEN OwnLinesReplaced(sLast.main.lines)
                            ELSE Append(sLast.main.lines, IncludeLine)
        /\ ParseFile(mainFile, tokenFile).err = ""

\* nix.conf was "include extra.conf": the line of extra.conf is now a line
\* of nix.conf
C38_WitnessIncludedLine ==
    /\ MainRewritten
    /\ sLast.main = File(<<IncludeExtraLine>>)
    /\ mainFile = File(<<ExtraLine, IncludeExtraLine, IncludeLine>>)

-----------------------------------------------------------------------------
(* Properties of login with a PAT provider *)

\* the token entered is one the server accepts
EnteredValid == lp.pc = "done" /\ ~lp.reply.err /\ lp.reply.status = 200

\* C33: however long the prompts of the PAT flow wait, a valid token entered
\* by the user is accepted and returned by Authenticate run from login with
\* its --timeout context.
C33_PromptNotTimed ==
    EnteredValid => (lp.err = NilError /\ lp.token_out = lp.token)

\* what holds of the prompt: the same, when the token is entered before the
\* deadline of login's context
C33_EnteredInTime ==
    (EnteredValid /\ ~Expired(lp)) => (lp.err = NilError /\ lp.token_out = lp.token)

\* a valid token entered after the deadline is refused
C33_WitnessLate ==
    /\ EnteredValid
    /\ Expired(lp)
    /\ lp.token_out = ""
    /\ lp.err = Error("invalid token: failed to validate token: Get: context deadline exceeded",
                      "deadline exceeded")

\* the API URL of the family's primary host
PrimaryAPIURL(kind) ==
    IF kind = "github" THEN "https://api.github.com" ELSE "https://gitlab.com/api/v4"

\* Detect returned, for a caller without a client ID, the OAuth provider a
\* detector matched by its hostname shortcut
ShortcutMatched ==
    /\ dpc = "done"
    /\ dClientID = ""
    /\ dCalls # <<>>
    /\ dCalls[Len(dCalls)].matched
    /\ ~dCalls[Len(dCalls)].http
    /\ dResult.provider.kind \in {"github", "gitlab"}

\* C36: a provider that a detector matched through the case-insensitive
\* canonical-hostname shortcut (host "GitHub.com") is treated as on the
\* family's primary host by the later operations: Authenticate without a
\* client ID goes on with the default client ID, and validation uses the
\* primary host's API URL.
C36_ShortcutIsPrimaryHost ==
    ShortcutMatched =>
        /\ AuthenticateClientID(dResult.provider) # ""
        /\ getAPIURL(dResult.provider) = PrimaryAPIURL(dResult.provider.kind)

\* what holds of the shortcut: the same, when the host is written exactly
\* as the canonical hostname
C36_ExactHostIsPrimaryHost ==
    (ShortcutMatched /\ dHost = ToLower(dHost)) =>
        /\ AuthenticateClientID(dResult.provider) # ""
        /\ getAPIURL(dResult.provider) = PrimaryAPIURL(dResult.provider.kind)

\* "GitHub.com" matched by the shortcut: no client ID, and the API URL of a
\* GitHub Enterprise server
C36_WitnessGitHubCom ==
    /\ ShortcutMatched
    /\ dHost = "GitHub.com"
    /\ AuthenticateClientID(dResult.provider) = ""
    /\ getAPIURL(dResult.provider) = "https://GitHub.com/api/v3"

-----------------------------------------------------------------------------
(* Termination of the device flow *)

\* GitLabProvider.Authenticate is between its first request and its return
DeviceFlowRunning == apc \in {"requestingCode", "select", "inflight"}

PendingForever ==
    \A i \in 1..Len(pReplies) :
        /\ ~pReplies[i].err
        /\ pReplies[i].error \in {"authorization_pending", "slow_down"}

GitLabSucceeded == apc = "done" /\ g.kind = "gitlab" /\ aResult.err = NilError

\* C35: device-flow Authenticate never returns success with an empty token:
\* every return with a nil error carries the non-empty access token the
\* token endpoint supplied; an HTTP 200 reply without an access_token is
\* not a success.
C35_SuccessHasToken ==
    GitLabSucceeded =>
        /\ aResult.token # ""
        /\ aResult.token = pReplies[Len(pReplies)].access_token

\* what holds of a success: the token is the access_token field, empty or
\* not, of the decodable HTTP 200 reply that ended the polling
C35_SuccessIsLastReply ==
    GitLabSucceeded =>
        /\ pReplies # <<>>
        /\ pReplies[Len(pReplies)].status = 200
        /\ pReplies[Len(pReplies)].decodable
        /\ aResult.token = pReplies[Len(pReplies)].access_token

\* an HTTP 200 reply whose JSON has no access_token ended the call with a nil
\* error and the empty token
C35_WitnessEmptyToken ==
    /\ GitLabSucceeded
    /\ pReplies[Len(pReplies)] = TokenReply(FALSE, 200, TRUE, "", "")
    /\ aResult.token = ""

-----------------------------------------------------------------------------
(* The access-tokens value as text.  A string is the sequence of its        *)
(* characters; a token map is a function from hosts to tokens.              *)

MaxChars == 2

Chars == {"a", "b", " ", "=", "#"}

\* the strings SetToken is called with
Strings == UNION {[1..n -> Chars] : n \in 0..MaxChars}

\* the byte of a character, which sort.Strings compares
CharCode(ch) ==
    CASE ch = " " -> 32
      [] ch = "#" -> 35
      [] ch = "=" -> 61
      [] ch = "a" -> 97
      [] ch = "b" -> 98

RECURSIVE StringLess(_, _)
StringLess(a, b) ==
    IF b = <<>> THEN FALSE
    ELSE IF a = <<>> THEN TRUE
    ELSE IF Head(a) # Head(b) THEN CharCode(Head(a)) < CharCode(Head(b))
    ELSE StringLess(Tail(a), Tail(b))

RECURSIVE SortStrings(_)
SortStrings(hosts) ==
    IF hosts = {} THEN <<>>
    ELSE LET first == CHOOSE h \in hosts : \A o \in hosts \ {h} : StringLess(h, o)
         IN <<first>> \o SortStrings(hosts \ {first})

\* strings.Join(elems, sep)
RECURSIVE Join(_, _)
Join(elems, sep) ==
    IF elems = <<>> THEN <<>>
    ELSE IF Len(elems) = 1 THEN elems[1]
    ELSE elems[1] \o sep \o Join(Tail(elems), sep)

\* strings.IndexByte(text, ch), counted from 1; 0 when ch is not in text
IndexByte(text, ch) ==
    IF \E i \in 1..Len(text) : text[i] = ch
    THEN CHOOSE i \in 1..Len(text) : text[i] = ch /\ \A j \in 1..(i - 1) : text[j] # ch
    ELSE 0

\* strings.TrimSpace on a sequence of characters
RECURSIVE TrimSpaces(_)
TrimSpaces(text) ==
    IF text = <<>> THEN text
    ELSE IF Head(text) = " " THEN TrimSpaces(Tail(text))
    ELSE IF text[Len(text)] = " " THEN TrimSpaces(SubSeq(text, 1, Len(text) - 1))
    ELSE text

\* strings.Fields(text): the maximal runs of non-space characters
RECURSIVE Fields(_, _)
Fields(text, word) ==
    IF text = <<>> THEN IF word = <<>> THEN <<>> ELSE <<word>>
    ELSE IF Head(text) = " "
    THEN (IF word = <<>> THEN <<>> ELSE <<word>>) \o Fields(Tail(text), <<>>)
    ELSE Fields(Tail(text), Append(word, Head(text)))

\* FormatAccessTokens: "host=token" for the hosts in sorted order, joined by
\* one space
FormatAccessTokensText(tokens) ==
    IF DOMAIN tokens = {} THEN <<>>
    ELSE LET hosts == SortStrings(DOMAIN tokens)
         IN Join([i \in 1..Len(hosts) |-> hosts[i] \o <<"=">> \o tokens[hosts[i]]], <<" ">>)

\* parseLine on the line "access-tokens = <text>": the content before a "#",
\* trimmed, is split at its first "="; the value is what follows, trimmed
parseLineValue(text) ==
    LET idx == IndexByte(text, "#")
    IN TrimSpaces(IF idx = 0 THEN text ELSE SubSeq(text, 1, idx - 1))

EmptyMap == [h \in {} |-> <<>>]

MapSet(tokens, host, token) ==
    [h \in DOMAIN tokens \cup {host} |-> IF h = host THEN token ELSE tokens[h]]

\* ParseAccessTokens: each field is split at its first "="
RECURSIVE parsePairs(_, _)
parsePairs(pairs, tokens) ==
    IF pairs = <<>> THEN [err |-> "", tokens |-> tokens]
    ELSE LET pair == Head(pairs)
             idx  == IndexByte(pair, "=")
             host == SubSeq(pair, 1, idx - 1)
             token == SubSeq(pair, idx + 1, Len(pair))
         IN IF idx = 0
            THEN [err |-> "invalid token format", tokens |-> EmptyMap]
            ELSE IF host = <<>> \/ token = <<>>
            THEN [err |-> "invalid token format: empty host or token", tokens |-> EmptyMap]
            ELSE parsePairs(Tail(pairs), MapSet(tokens, host, token))

ParseAccessTokensText(value) ==
    IF value = <<>> THEN [err |-> "", tokens |-> EmptyMap]
    ELSE parsePairs(Fields(value, <<>>), EmptyMap)

\* the token maps SetToken finds
FoundMaps == {EmptyMap, MapSet(EmptyMap, <<"b">>, <<"a">>)}

NoText == [pc |-> "idle", host |-> <<>>, token |-> <<>>, found |-> EmptyMap,
           written |-> <<>>, err |-> "", tokens |-> EmptyMap, got |-> <<>>]

\* SetToken(host, token) on a store holding the map found: the map with the
\* token set is formatted and writeTokenFile puts it after "access-tokens = ";
\* nothing is refused
SetTokenText(host, token, found) ==
    /\ tx.pc = "idle"
    /\ tx' = [NoText EXCEPT !.pc = "set", !.host = host, !.token = token, !.found = found,
                            !.written = FormatAccessTokensText(MapSet(found, host, token))]
    /\ UNCHANGED exceptTextVars

\* GetToken(host) afterwards: the line is parsed, then its value; a host
\* that is not in the map gives ""
GetTokenText ==
    /\ tx.pc = "set"
    /\ LET parsed == ParseAccessTokensText(parseLineValue(tx.written))
       IN tx' = [tx EXCEPT !.pc = "got", !.err = parsed.err, !.tokens = parsed.tokens,
                           !.got = IF parsed.err = "" /\ tx.host \in DOMAIN parsed.tokens
                                   THEN parsed.tokens[tx.host] ELSE <<>>]
    /\ UNCHANGED exceptTextVars

\* the next call starts from a store of its own
NextCallText ==
    /\ tx.pc = "got"
    /\ tx' = NoText
    /\ UNCHANGED exceptTextVars

TextInit == tx = NoText

TextNext ==
    \/ \E host \in Strings, token \in Strings, found \in FoundMaps : SetTokenText(host, token, found)
    \/ GetTokenText
    \/ NextCallText

-----------------------------------------------------------------------------
(* Properties of the access-tokens value as text *)

\* C39: what SetToken wrote parses back, without error, to the map it
\* formatted, for every host and token it accepted.
C39_RoundTrip ==
    tx.pc = "got" =>
        /\ tx.err = ""
        /\ tx.tokens = MapSet(tx.found, tx.host, tx.token)

\* a string that is one field of the value: not empty, no space, no "#"
OneField(text) ==
    /\ text # <<>>
    /\ \A i \in 1..Len(text) : text[i] \notin {" ", "#"}

\* what holds of the round trip: it holds for a host and a token that are
\* one field each, the host without "="
C39_RoundTripOfFields ==
    (/\ tx.pc = "got"
     /\ OneField(tx.host) /\ OneField(tx.token)
     /\ IndexByte(tx.host, "=") = 0) =>
        /\ tx.err = ""
        /\ tx.tokens = MapSet(tx.found, tx.host, tx.token)
        /\ tx.got = tx.token

\* SetToken("a", "") was accepted and GetToken fails on what it wrote
C39_WitnessEmptyToken ==
    /\ tx.pc = "got"
    /\ tx.host = <<"a">>
    /\ tx.token = <<>>
    /\ tx.written = <<"a", "=">>
    /\ tx.err = "invalid token format: empty host or token"

\* a token with a space in it: the second word is no pair
C39_WitnessSpace ==
    /\ tx.pc = "got"
    /\ tx.token = <<" ", "b">>
    /\ tx.err = "invalid token format"

-----------------------------------------------------------------------------
(* Two SetToken calls at once on one configuration: each is a sequence of   *)
(* file reads and writes, and nothing orders the steps of one call with     *)
(* those of the other (the store takes no lock)                             *)

Procs == {1, 2}

Other(p) == CHOOSE q \in Procs : q # p

\* the two calls are for different hosts
ProcHost(p) == IF p = 1 THEN "github.com" ELSE "gitlab.com"

NoProc ==
    [pc |-> "idle", host |-> "", token |-> "", main |-> NoFile, config |-> NoConfigParsed,
     tokens |-> NoTokens, alone |-> TRUE, err |-> ""]

\* the files as they are before either call starts; nix.conf may be missing
ConcFound(main, tf) ==
    /\ ~cFiles.found
    /\ cFiles' = [found |-> TRUE, main |-> main, tf |-> tf, backups |-> {}]
    /\ UNCHANGED procs
    /\ UNCHANGED exceptConcVars

\* SetToken(host, token) is called; alone records that the other call is not
\* running at that time
ConcCall(p, token) ==
    /\ cFiles.found
    /\ procs[p].pc = "idle"
    /\ procs' = [procs EXCEPT ![p] = [NoProc EXCEPT !.pc = "open", !.host = ProcHost(p),
                                                    !.token = token,
                                                    !.alone = procs[Other(p)].pc \in {"idle", "done"}]]
    /\ UNCHANGED cFiles
    /\ UNCHANGED exceptConcVars

\* SetToken after ParseFile has returned config: the errors it returns, or
\* the map it is going to write
Parsed(proc, config) ==
    IF config.err \notin {"", "not exist"}
    THEN [proc EXCEPT !.pc = "done", !.err = "failed to parse config: " \o config.err]
    ELSE IF ConfigTokens(config).err # ""
    THEN [proc EXCEPT !.pc = "done",
                      !.err = "failed to parse existing tokens: " \o ConfigTokens(config).err]
    ELSE [proc EXCEPT !.pc = "writeTokens", !.config = config,
                      !.tokens = existingTokens(ConfigTokens(config).tokens, proc.host, proc.token)]

\* the parser opens nix.conf and reads it; a file that holds the include of
\* the token file leaves the token file to be opened
ConcReadMain(p) ==
    /\ procs[p].pc = "open"
    /\ procs' = [procs EXCEPT ![p] =
                    IF HoldsLine(cFiles.main, "include")
                    THEN [@ EXCEPT !.pc = "include", !.main = cFiles.main]
                    ELSE Parsed([@ EXCEPT !.main = cFiles.main], ParseFile(cFiles.main, NoFile))]
    /\ UNCHANGED cFiles
    /\ UNCHANGED exceptConcVars

\* the parser opens the token file the include names, as it is by now
ConcReadInclude(p) ==
    /\ procs[p].pc = "include"
    /\ procs' = [procs EXCEPT ![p] = Parsed(@, ParseFile(@.main, cFiles.tf))]
    /\ UNCHANGED cFiles
    /\ UNCHANGED exceptConcVars

\* writeTokenFile, then the choice of what to do to nix.conf
ConcWriteTokens(p) ==
    /\ procs[p].pc = "writeTokens"
    /\ cFiles' = [cFiles EXCEPT !.tf = writeTokenFile(procs[p].tokens)]
    /\ procs' = [procs EXCEPT ![p].pc =
                    IF procs[p].config.err = "not exist" THEN "createMain"
                    ELSE IF tokensInMainFile(procs[p].config) \/ ~procs[p].config.Includes
                    THEN "backup"
                    ELSE "done"]
    /\ UNCHANGED exceptConcVars

\* nix.conf did not exist when it was opened: it is written anew
ConcCreateMain(p) ==
    /\ procs[p].pc = "createMain"
    /\ cFiles' = [cFiles EXCEPT !.main = File(<<CommentLine, IncludeLine>>)]
    /\ procs' = [procs EXCEPT ![p].pc = "done"]
    /\ UNCHANGED exceptConcVars

\* createBackup copies nix.conf as it is by now
ConcBackup(p) ==
    /\ procs[p].pc = "backup"
    /\ cFiles' = [cFiles EXCEPT !.backups = @ \cup {cFiles.main}]
    /\ procs' = [procs EXCEPT ![p].pc = "writeMain"]
    /\ UNCHANGED exceptConcVars

\* WriteToFile writes the lines made from the configuration that was parsed
ConcWriteMain(p) ==
    /\ procs[p].pc = "writeMain"
    /\ cFiles' = [cFiles EXCEPT !.main = File(replaceTokensWithInclude(procs[p].config))]
    /\ procs' = [procs EXCEPT ![p].pc = "done"]
    /\ UNCHANGED exceptConcVars

ConcInit ==
    /\ cFiles = [found |-> FALSE, main |-> NoFile, tf |-> NoFile, backups |-> {}]
    /\ procs = [p \in Procs |-> NoProc]

ConcNext ==
    \/ \E main \in FoundMainFiles \cup {NoFile} : \E tf \in FoundTokenFiles : ConcFound(main, tf)
    \/ \E p \in Procs : \E token \in StoreTokens : ConcCall(p, token)
    \/ \E p \in Procs : ConcReadMain(p)
    \/ \E p \in Procs : ConcReadInclude(p)
    \/ \E p \in Procs : ConcWriteTokens(p)
    \/ \E p \in Procs : ConcCreateMain(p)
    \/ \E p \in Procs : ConcBackup(p)
    \/ \E p \in Procs : ConcWriteMain(p)

-----------------------------------------------------------------------------
(* Properties of two SetToken calls at once *)

BothReturnedNil == \A p \in Procs : procs[p].pc = "done" /\ procs[p].err = ""

Retrievable(p) ==
    GetToken(cFiles.main, cFiles.tf, procs[p].host) = [token |-> procs[p].token, err |-> ""]

\* C40: two SetToken calls for different hosts, interleaved at their file
\* reads and writes, lose no update: after both returned nil, both tokens
\* are retrievable.
C40_NoLostUpdate == BothReturnedNil => \A p \in Procs : Retrievable(p)

\* what holds: one call after the other loses no update
C40_OneAfterTheOther ==
    (BothReturnedNil /\ \A p \in Procs : procs[p].alone) => \A p \in Procs : Retrievable(p)

\* both calls read an empty store, both returned nil, and the token file
\* holds the token of the second writer only
C40_WitnessLostUpdate ==
    /\ BothReturnedNil
    /\ \A p \in Procs : procs[p].tokens = [NoTokens EXCEPT ![procs[p].host] = "new_token"]
    /\ cFiles.main = File(<<CommentLine, IncludeLine>>)
    /\ cFiles.tf = File(<<TokensLine(<<<<"gitlab.com", "new_token">>>>)>>)
    /\ GetToken(cFiles.main, cFiles.tf, "github.com") = [token |-> "", err |-> ""]

-----------------------------------------------------------------------------

Init == DetectInit /\ AuthInit /\ OpInit /\ RegInit /\ CmdInit /\ StoreInit /\ PatInit
        /\ TextInit /\ ConcInit

Next == DetectNext

Spec == Init /\ [][Next]_vars

SpecDeviceFlow == Init /\ [][AuthNext]_vars

\* the device flow under a context with a deadline: the deadline passes, a
\* request that was sent returns, and a select with a ready case takes one
SpecDeviceFlowDeadline ==
    /\ Init
    /\ [][AuthNext]_vars
    /\ WF_vars(Cancel("deadline exceeded"))
    /\ WF_vars(\E resp \in CodeReplies : requestDeviceCode(resp))
    /\ WF_vars(\E reply \in TokenReplies, stale \in BOOLEAN : TokenResponse(reply, stale))
    /\ WF_vars(SelectDone)

SpecProvider == Init /\ [][OpNext]_vars

SpecRegistry == Init /\ [][RegNext]_vars

SpecCommands == Init /\ [][CmdNext]_vars

SpecStore == Init /\ [][StoreNext]_vars

SpecLoginPAT == Init /\ [][PatNext]_vars

SpecTokenText == Init /\ [][TextNext]_vars

SpecConcurrent == Init /\ [][ConcNext]_vars

=============================================================================
